---- MODULE Spec2Model ----
(***************************************************************************)
(* glue-prompt: prompt loader and cache, local registry, worktree manager, *)
(* repository manager, template renderer and the HTTP error mappings.      *)
(*                                                                         *)
(* Path strings are modelled as sequences of their '/'-separated segments  *)
(* (an absolute path string starts with the segment "/"), so that pathlib's *)
(* joining and normalisation, symlink resolution and the three candidate   *)
(* file names of the loader are computed, not assumed.                     *)
(***************************************************************************)
EXTENDS Integers, Sequences, FiniteSets, TLC

VARIABLES
    fs,             \* the files under the prompts directory (location -> node)
    cache,          \* PromptLoader.cache: cache key -> (Prompt, timestamp)
    cache_enabled,  \* PromptLoader.cache_enabled
    cache_ttl,      \* PromptLoader.cache_ttl
    clock,          \* time.time()
    nobjs,          \* number of Prompt objects constructed so far (object identity)
    fsops,          \* number of changes made to the files so far
    res,            \* outcome of the last operation
    stored,         \* history: cache key -> what the latest re-read stored under it
    head,           \* main working copy: what is checked out
    branches,       \* local branches of the main repository: name -> commit
    ckpt,           \* history: nobjs at the last successful checkout (-1: none yet)
    the_prompt,     \* TemplateRenderer.render: the Prompt argument
    kwargs,         \* TemplateRenderer.render: the **variables argument
    repos_json,     \* ~/.config/glueprompt/repos.json: name -> entry
    repo_dirs,      \* ~/.cache/glueprompt/repos: name -> the clone in that directory
    managers,       \* the RepoManager instances: self.config and the call in progress
    default_repo,   \* ~/.config/glueprompt/default_repo.txt (None: no file)
    nclones,        \* number of runs of git clone so far (identity of a clone)
    error_msg,      \* render route: str(e) of the failure being mapped
    response,       \* API client: the error response being handled
    session,        \* API client: the render call in progress and its requests
    wt,             \* ~/.cache/glueprompt/worktrees/<repo>: directory name -> content
    wtbase,         \* whether the directory worktrees/<repo> itself exists
    reg,            \* the worktrees registered in the main repository (.git/worktrees)
    requests,       \* the server's requests in progress: process -> call state
    nreq,           \* number of requests started so far
    args,           \* CLI: the arguments of the call being made
    work            \* CLI: the repository git_commit works on, and its progress

gitVars == <<head, branches, ckpt>>
loaderVars == <<fs, cache, cache_enabled, cache_ttl, clock, nobjs, fsops, stored, gitVars>>
renderVars == <<the_prompt, kwargs>>
repoVars == <<repos_json, repo_dirs, managers, default_repo, nclones>>
httpVars == <<error_msg, response, session>>
wtVars == <<wt, wtbase, reg, requests, nreq>>
cliVars == <<args, work>>
otherVars == <<renderVars, repoVars, httpVars, wtVars, cliVars>>
vars == <<loaderVars, res, otherVars>>

(***************************************************************************)
(* Bounds                                                                  *)
(***************************************************************************)
MaxTime == 2
MaxObj == 2
MaxFsOps == 2

\* PromptLoader(cache_ttl=...) is constructed with a TTL in 0..MaxTtl
MaxTtl == 2

None == [k |-> "none"]

(***************************************************************************)
(* Paths (pathlib)                                                         *)
(***************************************************************************)
\* self.prompts_dir
PromptsDir == <<"r">>

\* PurePath parsing drops empty and "." segments ("a/" and "a//" and "a/." are "a")
RECURSIVE Normalize(_)
Normalize(segs) ==
    IF segs = <<>> THEN <<>>
    ELSE IF Head(segs) \in {"", "."} THEN Normalize(Tail(segs))
    ELSE <<Head(segs)>> \o Normalize(Tail(segs))

\* base / p : an absolute right operand replaces the base
PathJoin(base, p) ==
    IF p # <<>> /\ Head(p) = "/" THEN Normalize(Tail(p)) ELSE base \o Normalize(p)

\* f"{prompt_path}{ext}" : the extension is appended to the text of the path
AppendExt(p, ext) == [p EXCEPT ![Len(p)] = @ \o ext]

\* a.is_relative_to(b)
IsRelativeTo(a, b) == Len(a) >= Len(b) /\ SubSeq(a, 1, Len(b)) = b

(***************************************************************************)
(* The file system                                                         *)
(***************************************************************************)
\* what a prompt file holds: "t1", "t2" are two well-formed prompts, "nv" parses
\* but does not pass the validator, "sx" has a template that Jinja2 cannot parse,
\* "bad" is not valid YAML, "nt" is YAML without a template
Contents == {"t1", "t2", "nv", "sx", "bad", "nt"}

File(c) == [k |-> "file", c |-> c]
Dir == [k |-> "dir"]
Link(to) == [k |-> "link", to |-> to]

\* files outside the prompts directory: one for each resolution form
OutsideFs ==
    (<<"o", "s1.yaml">> :> File("t1")) @@
    (<<"o", "s2.yml">> :> File("t1")) @@
    (<<"o", "s3">> :> [k |-> "dir"]) @@
    (<<"o", "s3", "index.yaml">> :> File("t1"))

\* the locations under the prompts directory that the model lets change
YamlLoc == <<"r", "a.yaml">>
YmlLoc == <<"r", "a.yml">>
DirLoc == <<"r", "a">>
IndexLoc == <<"r", "a", "index.yaml">>
OtherLoc == <<"r", "b.yaml">>
InsideLocs == {YamlLoc, YmlLoc, DirLoc, IndexLoc, OtherLoc}

\* where a symlink planted at an inside location points
LinkTarget(loc) ==
    IF loc = YamlLoc THEN <<"o", "s1.yaml">>
    ELSE IF loc = YmlLoc THEN <<"o", "s2.yml">>
    ELSE <<"o", "s3">>

\* what is at a location: the files under the root, then the files outside it
NodeAt(f, loc) ==
    IF loc \in DOMAIN f THEN f[loc]
    ELSE IF loc \in DOMAIN OutsideFs THEN OutsideFs[loc]
    ELSE None

\* Path.resolve(): ".." steps up, a symlink is replaced by its target
RECURSIVE Walk(_, _, _)
Walk(f, done, rest) ==
    IF rest = <<>> THEN done
    ELSE IF Head(rest) = ".."
        THEN Walk(f, IF done = <<>> THEN <<>> ELSE SubSeq(done, 1, Len(done) - 1), Tail(rest))
    ELSE LET cand == Append(done, Head(rest)) IN
         IF NodeAt(f, cand).k = "link"
             THEN Walk(f, <<>>, NodeAt(f, cand).to \o Tail(rest))
             ELSE Walk(f, cand, Tail(rest))

Resolve(f, path) == Walk(f, <<>>, path)

\* Path.exists(): follows symlinks
Exists(f, path) == NodeAt(f, Resolve(f, path)).k \in {"file", "dir"}

(***************************************************************************)
(* PromptLoader                                                            *)
(***************************************************************************)
\* _get_cache_key: str(self.prompts_dir / prompt_path)
CacheKey(p) == PathJoin(PromptsDir, p)

IsCacheValid_Le(entry, now) ==
    IF ~cache_enabled THEN FALSE ELSE (now - entry.ts) <= cache_ttl

\* _is_cache_valid
IsCacheValid(entry, now) ==
    IF ~cache_enabled THEN FALSE ELSE (now - entry.ts) < cache_ttl

ValidatePromptPath_Unresolved(f, path) == IsRelativeTo(path, PromptsDir)

\* _validate_prompt_path: TRUE when the path passes, FALSE when it raises
ValidatePromptPath(f, path) ==
    IsRelativeTo(Resolve(f, path), Resolve(f, PromptsDir))

\* the three candidates of _resolve_prompt_file, in the order they are tried
Candidates(p) ==
    << PathJoin(PromptsDir, AppendExt(p, ".yaml")),
       PathJoin(PromptsDir, AppendExt(p, ".yml")),
       PathJoin(PathJoin(PromptsDir, p), <<"index.yaml">>) >>

ResolvePromptFile_YmlFirst(f, p) ==
    LET c == Candidates(p) IN
    IF Exists(f, c[2]) THEN
        IF ValidatePromptPath(f, c[2]) THEN [out |-> "ok", file |-> c[2]]
        ELSE [out |-> "PromptValidationError", file |-> c[2]]
    ELSE IF Exists(f, c[1]) THEN
        IF ValidatePromptPath(f, c[1]) THEN [out |-> "ok", file |-> c[1]]
        ELSE [out |-> "PromptValidationError", file |-> c[1]]
    ELSE IF Exists(f, c[3]) THEN
        IF ValidatePromptPath(f, c[3]) THEN [out |-> "ok", file |-> c[3]]
        ELSE [out |-> "PromptValidationError", file |-> c[3]]
    ELSE [out |-> "PromptNotFoundError", file |-> <<>>]

\* _resolve_prompt_file: the first candidate that exists, validated
ResolvePromptFile(f, p) ==
    LET c == Candidates(p) IN
    IF Exists(f, c[1]) THEN
        IF ValidatePromptPath(f, c[1]) THEN [out |-> "ok", file |-> c[1]]
        ELSE [out |-> "PromptValidationError", file |-> c[1]]
    ELSE IF Exists(f, c[2]) THEN
        IF ValidatePromptPath(f, c[2]) THEN [out |-> "ok", file |-> c[2]]
        ELSE [out |-> "PromptValidationError", file |-> c[2]]
    ELSE IF Exists(f, c[3]) THEN
        IF ValidatePromptPath(f, c[3]) THEN [out |-> "ok", file |-> c[3]]
        ELSE [out |-> "PromptValidationError", file |-> c[3]]
    ELSE [out |-> "PromptNotFoundError", file |-> <<>>]

\* a Prompt object: its identity, the file it was parsed from and what it holds
NoObj == [id |-> 0, src |-> <<>>, c |-> "none"]
Prompt(id, src, c) == [id |-> id, src |-> src, c |-> c]

\* the cache lookup at the head of load: TRUE when the cached Prompt is returned
CacheHit(p, uc) ==
    /\ uc
    /\ cache_enabled
    /\ CacheKey(p) \in DOMAIN cache
    /\ IsCacheValid(cache[CacheKey(p)], clock)

\* "Update cache" in load
UpdateCache(c, key, prompt, now) ==
    IF cache_enabled THEN (key :> [obj |-> prompt, ts |-> now]) @@ c ELSE c

\* the logical prompt paths callers pass
LogicalPaths ==
    { <<"a">>, <<"a", "">>, <<"b">>,
      <<"..", "o", "s1">>, <<"..", "o", "s2">>, <<"..", "o", "s3">>,
      <<"/", "o", "s1">>, <<"/", "o", "s2">>, <<"/", "o", "s3">> }

\* load without a cache entry: resolve the file, read and parse it into a new Prompt
ReadPrompt(f, p, id) ==
    LET r == ResolvePromptFile(f, p) IN
    IF r.out # "ok"
    THEN [out |-> r.out, obj |-> NoObj, hit |-> FALSE, read |-> FALSE]
    ELSE LET src == Resolve(f, r.file)
             c == NodeAt(f, src).c IN
         IF c \in {"bad", "nt"}
         THEN [out |-> "PromptValidationError", obj |-> NoObj, hit |-> FALSE, read |-> FALSE]
         ELSE [out |-> "ok", obj |-> Prompt(id, src, c), hit |-> FALSE, read |-> TRUE]

\* what one call of load does: the outcome, and the Prompt it returns
\* (read: the file was opened and parsed into a new Prompt object)
LoadOutcome(p, uc) ==
    IF CacheHit(p, uc)
    THEN [out |-> "ok", obj |-> cache[CacheKey(p)].obj, hit |-> TRUE, read |-> FALSE]
    ELSE ReadPrompt(fs, p, nobjs + 1)

\* history: what the latest re-read of a key stored (None after clear/invalidate)
StoredAfterRead(key, prompt) ==
    IF cache_enabled THEN (key :> [obj |-> prompt, at |-> clock]) @@ stored
    ELSE stored

\* the state change of one call of load
LoadEffect(p, o) ==
    IF o.read
    THEN /\ nobjs < MaxObj
         /\ nobjs' = nobjs + 1
         /\ cache' = UpdateCache(cache, CacheKey(p), o.obj, clock)
         /\ stored' = StoredAfterRead(CacheKey(p), o.obj)
    ELSE UNCHANGED <<cache, nobjs, stored>>

OpResult(op, p, uc, o) ==
    [op |-> op, p |-> p, uc |-> uc, out |-> o.out, obj |-> o.obj, hit |-> o.hit]

\* PromptLoader.load(prompt_path, use_cache)
Load(p, uc) ==
    /\ \E o \in {LoadOutcome(p, uc)} :
          /\ LoadEffect(p, o)
          /\ res' = OpResult("load", p, uc, o)
    /\ UNCHANGED <<fs, cache_enabled, cache_ttl, clock, fsops, gitVars, otherVars>>

NoArg == <<"-">>
Done(op, p) == [op |-> op, p |-> p, uc |-> FALSE, out |-> "ok", obj |-> NoObj, hit |-> FALSE]
Failed(op, p, err) == [op |-> op, p |-> p, uc |-> FALSE, out |-> err, obj |-> NoObj, hit |-> FALSE]

EmptyCache == [k \in {} |-> None]
NothingStored == [k \in {} |-> None]

\* PromptLoader.clear_cache (also PromptRegistry.clear_cache and invalidate_cache(None))
ClearCache ==
    /\ cache' = EmptyCache
    /\ stored' = NothingStored
    /\ res' = Done("clear_cache", NoArg)
    /\ UNCHANGED <<fs, cache_enabled, cache_ttl, clock, nobjs, fsops, gitVars, otherVars>>

\* cache.pop(cache_key, None)
CachePop(c, key) == [k \in DOMAIN c \ {key} |-> c[k]]

\* PromptLoader.invalidate_cache(prompt_path)
InvalidateCache(p) ==
    /\ cache' = IF CacheKey(p) \in DOMAIN cache THEN CachePop(cache, CacheKey(p)) ELSE cache
    /\ stored' = [k \in DOMAIN stored \ {CacheKey(p)} |-> stored[k]]
    /\ res' = Done("invalidate_cache", p)
    /\ UNCHANGED <<fs, cache_enabled, cache_ttl, clock, nobjs, fsops, gitVars, otherVars>>

\* time passes between calls
Tick ==
    /\ clock < MaxTime
    /\ clock' = clock + 1
    /\ res' = Done("tick", NoArg)
    /\ UNCHANGED <<fs, cache, cache_enabled, cache_ttl, nobjs, fsops, stored, gitVars, otherVars>>

(***************************************************************************)
(* Changes made to the files by others (an editor, the CLI, git)           *)
(***************************************************************************)
FileLocs == {YamlLoc, YmlLoc, IndexLoc}
WrittenContents == {"t2", "bad"}

\* a prompt file is written (a file under a/ creates the directory)
WriteFile(loc, c) ==
    /\ fsops < MaxFsOps
    /\ loc = IndexLoc => fs[DirLoc].k # "link"
    /\ fs[loc] # File(c)
    /\ fs' = IF loc = IndexLoc
             THEN [fs EXCEPT ![IndexLoc] = File(c), ![DirLoc] = Dir]
             ELSE [fs EXCEPT ![loc] = File(c)]
    /\ fsops' = fsops + 1
    /\ res' = Done("write", loc)
    /\ UNCHANGED <<cache, cache_enabled, cache_ttl, clock, nobjs, stored, gitVars, otherVars>>

\* a prompt file is deleted (the directory a/ goes with its index.yaml)
RemoveFile(loc) ==
    /\ fsops < MaxFsOps
    /\ fs[loc].k # "none"
    /\ fs' = IF loc = IndexLoc
             THEN [fs EXCEPT ![IndexLoc] = None, ![DirLoc] = None]
             ELSE [fs EXCEPT ![loc] = None]
    /\ fsops' = fsops + 1
    /\ res' = Done("remove", loc)
    /\ UNCHANGED <<cache, cache_enabled, cache_ttl, clock, nobjs, stored, gitVars, otherVars>>

\* a.yaml, a.yml or the directory a/ is replaced by a symlink that leaves the root
MakeLink(loc) ==
    /\ fsops < MaxFsOps
    /\ fs[loc].k # "link"
    /\ fs' = IF loc = DirLoc
             THEN [fs EXCEPT ![DirLoc] = Link(LinkTarget(DirLoc)), ![IndexLoc] = None]
             ELSE [fs EXCEPT ![loc] = Link(LinkTarget(loc))]
    /\ fsops' = fsops + 1
    /\ res' = Done("symlink", loc)
    /\ UNCHANGED <<cache, cache_enabled, cache_ttl, clock, nobjs, stored, gitVars, otherVars>>

(***************************************************************************)
(* The repository under the prompts directory, and VersionManager          *)
(***************************************************************************)
NoFiles == [l \in InsideLocs |-> None]

\* the tracked files of the commits (c3 keeps the prompt a as a/index.yaml)
Tree(commit) ==
    IF commit = "c1"
    THEN [NoFiles EXCEPT ![YamlLoc] = File("t1"), ![OtherLoc] = File("nv")]
    ELSE IF commit = "c3"
    THEN [NoFiles EXCEPT ![DirLoc] = Dir, ![IndexLoc] = File("t1")]
    ELSE [NoFiles EXCEPT ![YmlLoc] = File("t2"), ![OtherLoc] = File("t1")]

\* the names of git references, as text
MainRef == <<"m", "a", "i", "n">>
DevRef == <<"d", "e", "v">>
V1Ref == <<"v", "1">>
V2Ref == <<"v", "2">>
AV1Ref == <<"a", "/", "v", "1">>
AV2Ref == <<"a", "/", "v", "2">>
AV3Ref == <<"a", "/", "v", "3">>
A_V1Ref == <<"a", "_", "v", "1">>

\* repo.tags: tag name -> commit ("a/v1" and "a/v2" are the version tags of the
\* prompt a, "a_v1" is a tag of its own)
Tags ==
    (V1Ref :> "c1") @@ (V2Ref :> "c2") @@ (AV1Ref :> "c1") @@ (AV2Ref :> "c2")
    @@ (AV3Ref :> "c3") @@ (A_V1Ref :> "c2")

Attached(name, commit) == [branch |-> name, commit |-> commit]
Detached(commit) == [branch |-> <<>>, commit |-> commit]

\* git checkout refuses to overwrite a locally changed file that differs between
\* the two commits
CheckoutConflicts(f, from, to) ==
    \E l \in InsideLocs : f[l] # Tree(from)[l] /\ Tree(from)[l] # Tree(to)[l]

\* the working copy after git checkout: files that differ between the commits
\* are replaced, local changes to the others are kept
CheckedOutFiles(f, from, to) ==
    [l \in InsideLocs |-> IF Tree(from)[l] = Tree(to)[l] THEN f[l] ELSE Tree(to)[l]]

\* git checkout <name>: a local branch of that name is preferred to a tag
GitCheckoutTarget(name) ==
    IF name \in DOMAIN branches THEN Attached(name, branches[name])
    ELSE Detached(Tags[name])

\* VersionManager.checkout: "tag", "branch", "create" or "VersionError"
CheckoutResolution(name, create_branch) ==
    IF name \in DOMAIN Tags THEN "tag"
    ELSE IF name \in DOMAIN branches THEN "branch"
    ELSE IF create_branch THEN "create"
    ELSE "VersionError"

CacheAfterCheckout_Keep(c) == c

\* the loader cache after a successful VersionManager.checkout: loader.clear_cache()
CacheAfterCheckout(c) == EmptyCache

\* PromptRegistry.checkout(branch_or_tag, create_branch): VersionManager.checkout,
\* then loader.clear_cache()
RegistryCheckout(op, name, create_branch) ==
    LET how == CheckoutResolution(name, create_branch) IN
    /\ IF how = "VersionError"
       THEN /\ res' = Failed(op, <<name>>, "VersionError")
            /\ UNCHANGED <<fs, cache, stored, gitVars>>
       ELSE IF how = "create"
       THEN /\ branches' = (name :> head.commit) @@ branches
            /\ head' = Attached(name, head.commit)
            /\ cache' = CacheAfterCheckout(cache)
            /\ stored' = NothingStored
            /\ ckpt' = nobjs
            /\ res' = Done(op, <<name>>)
            /\ UNCHANGED fs
       ELSE LET to == GitCheckoutTarget(name) IN
            IF CheckoutConflicts(fs, head.commit, to.commit)
            THEN /\ res' = Failed(op, <<name>>, "VersionError")
                 /\ UNCHANGED <<fs, cache, stored, gitVars>>
            ELSE /\ fs' = CheckedOutFiles(fs, head.commit, to.commit)
                 /\ head' = to
                 /\ cache' = CacheAfterCheckout(cache)
                 /\ stored' = NothingStored
                 /\ ckpt' = nobjs
                 /\ res' = Done(op, <<name>>)
                 /\ UNCHANGED branches
    /\ UNCHANGED <<cache_enabled, cache_ttl, clock, nobjs, fsops, otherVars>>

VersionNames == {V1Ref, V2Ref, MainRef, DevRef}

Checkout(name, create_branch) == RegistryCheckout("checkout", name, create_branch)

\* PromptRegistry.rollback(version) = self.checkout(version)
Rollback(name) == RegistryCheckout("rollback", name, FALSE)

(***************************************************************************)
(* Text: a Python str is the sequence of its characters                    *)
(***************************************************************************)
UpperCase ==
    <<"A", "B", "C", "D", "E", "F", "G", "H", "I", "J", "K", "L", "M", "N", "O", "P", "Q", "R",
      "S", "T", "U", "V", "W", "X", "Y", "Z">>
LowerCase ==
    <<"a", "b", "c", "d", "e", "f", "g", "h", "i", "j", "k", "l", "m", "n", "o", "p", "q", "r",
      "s", "t", "u", "v", "w", "x", "y", "z">>

\* the character c.lower()
LowerChar(c) ==
    IF \E i \in 1..26 : UpperCase[i] = c
    THEN LowerCase[CHOOSE i \in 1..26 : UpperCase[i] = c]
    ELSE c

\* s.lower()
Lower(s) == [i \in 1..Len(s) |-> LowerChar(s[i])]

\* sub in s
Contains(sub, s) ==
    \E i \in 0..(Len(s) - Len(sub)) : SubSeq(s, i + 1, i + Len(sub)) = sub

\* sep.join(list)
RECURSIVE JoinWith(_, _)
JoinWith(sep, list) ==
    IF list = <<>> THEN <<>>
    ELSE IF Len(list) = 1 THEN list[1]
    ELSE list[1] \o sep \o JoinWith(sep, Tail(list))

\* s.replace(old, new) for a single character old
ReplaceChar(s, old, new) == [i \in 1..Len(s) |-> IF s[i] = old THEN new ELSE s[i]]

(***************************************************************************)
(* Prompt variables and TemplateRenderer                                   *)
(***************************************************************************)
\* the number of variables a prompt declares
MaxVars == 2

NameVar == <<"n", "a", "m", "e">>
RoleVar == <<"r", "o", "l", "e">>
ToneVar == <<"t", "o", "n", "e">>
VarNames == {NameVar, RoleVar, ToneVar}

Value(v) == [k |-> "value", v |-> v]

\* VariableDefinition: required, default (None when absent)
VarDefs == [name : VarNames, required : BOOLEAN, default : {None, Value("default")}]

\* Prompt.variables is a dict: its items come in insertion order, each name once
VariableLists ==
    { l \in UNION { [1..n -> VarDefs] : n \in 0..MaxVars } :
        \A i, j \in 1..Len(l) : l[i].name = l[j].name => i = j }

\* Prompt.template: the names its expressions refer to, in order, and whether the
\* text is well-formed Jinja2
Templates ==
    [refs : {<<>>, <<NameVar>>, <<RoleVar>>, <<NameVar, RoleVar>>, <<ToneVar>>},
     ok : BOOLEAN]

NoPrompt == [variables |-> <<>>, template |-> [refs |-> <<>>, ok |-> TRUE]]
NoKwargs == [n \in {} |-> None]

\* Prompt.get_required_variables
GetRequiredVariables(p) ==
    LET required == SelectSeq(p.variables, LAMBDA d : d.required)
    IN [i \in 1..Len(required) |-> required[i].name]

\* Prompt.get_variable_defaults
GetVariableDefaults(p) ==
    LET with == { i \in 1..Len(p.variables) :
                    ~p.variables[i].required /\ p.variables[i].default # None }
    IN [n \in { p.variables[i].name : i \in with } |->
            p.variables[CHOOSE i \in with : p.variables[i].name = n].default]

DictUpdate_KeepOld(d, u) ==
    [n \in DOMAIN d \cup DOMAIN u |-> IF n \in DOMAIN d THEN d[n] ELSE u[n]]

\* d.update(u)
DictUpdate(d, u) ==
    [n \in DOMAIN d \cup DOMAIN u |-> IF n \in DOMAIN u THEN u[n] ELSE d[n]]

MissingRequired_First(p, merged) ==
    LET all == SelectSeq(GetRequiredVariables(p), LAMBDA n : n \notin DOMAIN merged)
    IN IF all = <<>> THEN <<>> ELSE <<all[1]>>

\* [var for var in required if var not in merged_vars]
MissingRequired(p, merged) ==
    SelectSeq(GetRequiredVariables(p), LAMBDA n : n \notin DOMAIN merged)

MissingPrefix ==
    <<"M", "i", "s", "s", "i", "n", "g", " ", "r", "e", "q", "u", "i", "r", "e", "d", " ", "v",
      "a", "r", "i", "a", "b", "l", "e", "s", ":", " ">>
UndefinedPrefix ==
    <<"U", "n", "d", "e", "f", "i", "n", "e", "d", " ", "v", "a", "r", "i", "a", "b", "l", "e",
      " ", "i", "n", " ", "t", "e", "m", "p", "l", "a", "t", "e", ":", " ">>
RenderingPrefix ==
    <<"T", "e", "m", "p", "l", "a", "t", "e", " ", "r", "e", "n", "d", "e", "r", "i", "n", "g",
      " ", "e", "r", "r", "o", "r", ":", " ">>
IsUndefined == <<"'", " ", "i", "s", " ", "u", "n", "d", "e", "f", "i", "n", "e", "d">>
SyntaxErrorText ==
    <<"u", "n", "e", "x", "p", "e", "c", "t", "e", "d", " ", "e", "n", "d", " ", "o", "f", " ",
      "t", "e", "m", "p", "l", "a", "t", "e">>
CommaSpace == <<",", " ">>

RenderResult(out, msg, evaluated, bound, rendered) ==
    [op |-> "render", out |-> out, msg |-> msg, evaluated |-> evaluated,
     bound |-> bound, rendered |-> rendered]

\* self.env.from_string(prompt.template).render(**merged_vars) under StrictUndefined
EvaluateTemplate(t, merged) ==
    IF ~t.ok
    THEN RenderResult("TemplateRenderError", RenderingPrefix \o SyntaxErrorText,
                      TRUE, merged, <<>>)
    ELSE LET undef == { i \in 1..Len(t.refs) : t.refs[i] \notin DOMAIN merged } IN
         IF undef # {}
         THEN LET first == CHOOSE i \in undef : \A j \in undef : i <= j IN
              RenderResult("TemplateRenderError",
                           UndefinedPrefix \o <<"'">> \o t.refs[first] \o IsUndefined,
                           TRUE, merged, <<>>)
         ELSE RenderResult("ok", <<>>, TRUE, merged,
                           [i \in 1..Len(t.refs) |-> merged[t.refs[i]]])

\* TemplateRenderer.render(prompt, **variables)
RenderOutcome(p, variables) ==
    LET merged_vars == DictUpdate(GetVariableDefaults(p), variables)
        missing == MissingRequired(p, merged_vars)
    IN IF missing # <<>>
       THEN RenderResult("TemplateRenderError",
                         MissingPrefix \o JoinWith(CommaSpace, missing),
                         FALSE, NoKwargs, <<>>)
       ELSE EvaluateTemplate(p.template, merged_vars)

Render ==
    /\ res.op # "render"
    /\ res' = RenderOutcome(the_prompt, kwargs)
    /\ UNCHANGED <<loaderVars, otherVars>>

(***************************************************************************)
(* PromptValidator                                                         *)
(***************************************************************************)
StringType == <<"s", "t", "r", "i", "n", "g">>
IntType == <<"i", "n", "t">>
FloatType == <<"f", "l", "o", "a", "t">>
BoolType == <<"b", "o", "o", "l">>
ListType == <<"l", "i", "s", "t">>
DictType == <<"d", "i", "c", "t">>
AnyType == <<"a", "n", "y">>

\* valid_types
ValidTypes == {StringType, IntType, FloatType, BoolType, ListType, DictType, AnyType}

\* the order in which the set valid_types is joined into a message
ValidTypeOrder == <<StringType, IntType, FloatType, BoolType, ListType, DictType, AnyType>>

\* PromptMetadata with the defaults of the fields a file leaves out
Metadata(name) ==
    [name |-> name, version |-> <<"1", ".", "0", ".", "0">>, description |-> <<>>, author |-> <<>>,
     tags |-> <<>>]

\* VariableDefinition
Variable(name, type, required, default) ==
    [name |-> name, type |-> type, required |-> required, default |-> default,
     description |-> <<>>]

\* _extract_template_variables: the leading identifiers of the {{ ... }} expressions
ExtractTemplateVariables(t) == { t.refs[i] : i \in 1..Len(t.refs) }

\* sorted(names)
SortedNames(names) == SelectSeq(<<NameVar, RoleVar, ToneVar>>, LAMBDA n : n \in names)

\* validate_and_raise: the head of the message
ValidationFailedText ==
    <<"P", "r", "o", "m", "p", "t", " ", "v", "a", "l", "i", "d", "a", "t", "i", "o", "n", " ",
      "f", "a", "i", "l", "e", "d", ":">>

NameRequiredText ==
    <<"P", "r", "o", "m", "p", "t", " ", "m", "e", "t", "a", "d", "a", "t", "a", " ", "m", "u",
      "s", "t", " ", "h", "a", "v", "e", " ", "a", " ", "'", "n", "a", "m", "e", "'", " ", "f",
      "i", "e", "l", "d">>
TemplateSyntaxPrefix ==
    <<"T", "e", "m", "p", "l", "a", "t", "e", " ", "s", "y", "n", "t", "a", "x", " ", "e", "r",
      "r", "o", "r", ":", " ">>
UndefinedVariablesPrefix ==
    <<"T", "e", "m", "p", "l", "a", "t", "e", " ", "u", "s", "e", "s", " ", "u", "n", "d", "e",
      "f", "i", "n", "e", "d", " ", "v", "a", "r", "i", "a", "b", "l", "e", "s", ":", " ">>

RequiredWithDefaultText(name) ==

    <<"V", "a", "r", "i", "a", "b", "l", "e", " ", "'">> \o name \o <<"'", " ", "i", "s", " ",
      "r", "e", "q", "u", "i", "r", "e", "d", " ", "b", "u", "t", " ", "h", "a", "s", " ", "a",
      " ", "d", "e", "f", "a", "u", "l", "t", " ", "v", "a", "l", "u", "e">>

InvalidTypeText(name, type) ==
    <<"V", "a", "r", "i", "a", "b", "l", "e", " ", "'">> \o name \o <<"'", " ", "h", "a", "s", " ", "i", "n", "v", "a", "l", "i", "d", " ", "t", "y", "p", "e", " ", "'">> \o type
    \o <<"'", ".", " ", "V", "a", "l", "i", "d", " ", "t", "y", "p", "e", "s", ":", " ">> \o JoinWith(CommaSpace, ValidTypeOrder)

\* the errors of one variable definition
VariableErrors(d) ==
    (IF d.required /\ d.default # None THEN <<RequiredWithDefaultText(d.name)>> ELSE <<>>)
    \o (IF d.type \notin ValidTypes THEN <<InvalidTypeText(d.name, d.type)>> ELSE <<>>)

RECURSIVE AllVariableErrors(_)
AllVariableErrors(variables) ==
    IF variables = <<>> THEN <<>>
    ELSE VariableErrors(Head(variables)) \o AllVariableErrors(Tail(variables))

\* template_vars - defined_vars
UndefinedVars(p) ==
    ExtractTemplateVariables(p.template)
    \ { p.variables[i].name : i \in 1..Len(p.variables) }

\* every check appends to one list
CollectedErrors(p) ==
    (IF p.metadata.name = <<>> THEN <<NameRequiredText>> ELSE <<>>)
    \o (IF ~p.template.ok THEN <<TemplateSyntaxPrefix \o SyntaxErrorText>> ELSE <<>>)
    \o (IF UndefinedVars(p) # {}
        THEN <<UndefinedVariablesPrefix \o JoinWith(CommaSpace, SortedNames(UndefinedVars(p)))>>
        ELSE <<>>)
    \o AllVariableErrors(p.variables)

Validate_FirstOnly(p) ==
    IF CollectedErrors(p) = <<>> THEN <<>> ELSE <<Head(CollectedErrors(p))>>

\* PromptValidator.validate(prompt)
Validate(p) == CollectedErrors(p)

\* "\n".join(f"  - {e}" for e in errors)
ErrorLines(errors) ==
    JoinWith(<<"\n">>, [i \in 1..Len(errors) |-> <<" ", " ", "-", " ">> \o errors[i]])

\* PromptValidator.validate_and_raise(prompt)
ValidateAndRaiseOutcome(p) ==
    LET errors == Validate(p) IN
    IF errors # <<>>
    THEN [op |-> "validate_and_raise", out |-> "PromptValidationError", errors |-> errors,
          msg |-> ValidationFailedText \o <<"\n">> \o ErrorLines(errors)]
    ELSE [op |-> "validate_and_raise", out |-> "ok", errors |-> errors, msg |-> <<>>]

ValidatorValidate ==
    /\ res.op # "validator_validate"
    /\ res' = [op |-> "validator_validate", out |-> "ok", errors |-> Validate(the_prompt),
               msg |-> <<>>]
    /\ UNCHANGED <<loaderVars, otherVars>>

ValidateAndRaise ==
    /\ res.op # "validate_and_raise"
    /\ res' = ValidateAndRaiseOutcome(the_prompt)
    /\ UNCHANGED <<loaderVars, otherVars>>

\* the prompts given to the validator
ValidatorVariables ==
    { Variable(n, t, r, dflt) :
        n \in VarNames, t \in {StringType, AnyType, <<"s", "t", "r">>}, r \in BOOLEAN,
        dflt \in {None, Value("default")} }

ValidatorVariableLists ==
    { l \in UNION { [1..n -> ValidatorVariables] : n \in 0..MaxVars } :
        \A i, j \in 1..Len(l) : l[i].name = l[j].name => i = j }

ValidatorPrompts ==
    [metadata : {Metadata(<<>>), Metadata(<<"p">>)},
     template : Templates,
     variables : ValidatorVariableLists]

\* the Prompt that a file content parses to
ParsedPrompt(c) ==
    IF c = "t1"
    THEN [metadata |-> Metadata(<<"p">>),
          template |-> [refs |-> <<NameVar>>, ok |-> TRUE],
          variables |-> <<Variable(NameVar, StringType, TRUE, None)>>]
    ELSE IF c = "t2"
    THEN [metadata |-> Metadata(<<"p">>),
          template |-> [refs |-> <<RoleVar>>, ok |-> TRUE],
          variables |-> <<Variable(RoleVar, StringType, FALSE, Value("default"))>>]
    ELSE IF c = "sx"
    THEN [metadata |-> Metadata(<<"p">>),
          template |-> [refs |-> <<RoleVar>>, ok |-> FALSE],
          variables |-> <<Variable(RoleVar, StringType, FALSE, Value("default"))>>]
    ELSE [metadata |-> Metadata(<<"p">>),
          template |-> [refs |-> <<ToneVar>>, ok |-> TRUE],
          variables |-> <<Variable(NameVar, StringType, TRUE, Value("default"))>>]

\* PromptValidator.validate(prompt) is non-empty
HasValidationErrors(prompt) == Validate(ParsedPrompt(prompt.c)) # <<>>

\* PromptRegistry.get(prompt_path, validate): loader.load, then validate_and_raise
RegistryGet(p, validate) ==
    /\ \E o \in {LoadOutcome(p, TRUE)} :
          /\ LoadEffect(p, o)
          /\ res' = IF o.out = "ok" /\ validate /\ HasValidationErrors(o.obj)
                    THEN [OpResult("get", p, TRUE, o) EXCEPT !.out = "PromptValidationError"]
                    ELSE OpResult("get", p, TRUE, o)
    /\ UNCHANGED <<fs, cache_enabled, cache_ttl, clock, fsops, gitVars, otherVars>>

\* PromptRegistry.validate(prompt_path): loader.load, then the validator's list
RegistryValidate(p) ==
    /\ \E o \in {LoadOutcome(p, TRUE)} :
          /\ LoadEffect(p, o)
          /\ res' = OpResult("validate", p, TRUE, o)
    /\ UNCHANGED <<fs, cache_enabled, cache_ttl, clock, fsops, gitVars, otherVars>>

(***************************************************************************)
(* RepoManager: the cache of cloned repositories and repos.json            *)
(***************************************************************************)
\* the number of times git clone runs
MaxClones == 2

RepoNames == {"p", "q"}
Urls == {"u1", "u2"}
CloneBranches == {None, Value("dev")}
Instances == {"m1", "m2"}

\* get_cache_dir(), as text
CacheDirText == <<"/", "c", "/">>

NoConfig == [n \in {} |-> None]
NoCall == [k |-> "none"]

\* self.config[name] = {"url": ..., "path": ..., "default_branch": ...}
ConfigEntry(url, name, branch) ==
    [url |-> url, path |-> CacheDirText \o <<name>>, default_branch |-> branch]

\* what git clone leaves in cache_dir/name
Clone(url, id) == [url |-> url, id |-> id]

DictSet(d, k, v) == [n \in DOMAIN d \cup {k} |-> IF n = k THEN v ELSE d[n]]
DictDel(d, k) == [n \in DOMAIN d \ {k} |-> d[n]]

AlreadyExistsText(name) ==
    <<"R", "e", "p", "o", "s", "i", "t", "o", "r", "y", " ", "'">> \o <<name>> \o <<"'", " ",
      "a", "l", "r", "e", "a", "d", "y", " ", "e", "x", "i", "s", "t", "s", " ", "a", "t",
      " ">> \o CacheDirText \o <<name>>
    \o
    <<".", " ", "U", "s", "e", " ", "-", "-", "f", "o", "r", "c", "e", " ", "t", "o", " ", "r",
      "e", "-", "c", "l", "o", "n", "e", " ", "o", "r", " ", "'", "g", "l", "u", "e", "p", "r",
      "o", "m", "p", "t", " ", "r", "e", "p", "o", " ", "r", "e", "m", "o", "v", "e",
      " ">> \o <<name>> \o <<"'", " ", "f", "i", "r", "s", "t", ".">>

RepoResult(op, i, name, force, out, msg) ==
    [op |-> op, i |-> i, name |-> name, force |-> force, out |-> out, msg |-> msg]

\* RepoManager(): self.config = load_repos_config()
NewManager(i) ==
    /\ managers[i].call = NoCall
    /\ managers[i].config # repos_json
    /\ managers' = [managers EXCEPT ![i].config = repos_json]
    /\ res' = RepoResult("RepoManager", i, "", FALSE, "ok", <<>>)
    /\ UNCHANGED <<repos_json, repo_dirs, default_repo, nclones>>
    /\ UNCHANGED <<loaderVars, renderVars, httpVars, wtVars, cliVars>>

DirsAfterForce_Keep(dirs, name) == dirs

\* shutil.rmtree(repo_path) of a forced clone
DirsAfterForce(dirs, name) == DictDel(dirs, name)

\* RepoManager.clone up to Repo.clone_from: the check of the existing directory
CloneStart(i, url, name, branch, force) ==
    /\ managers[i].call = NoCall
    /\ nclones < MaxClones
    /\ IF name \in DOMAIN repo_dirs /\ ~force
       THEN /\ res' = RepoResult("clone", i, name, force, "GitOperationError",
                                 AlreadyExistsText(name))
            /\ UNCHANGED <<managers, repo_dirs>>
       ELSE /\ repo_dirs' = IF name \in DOMAIN repo_dirs
                            THEN DirsAfterForce(repo_dirs, name) ELSE repo_dirs
            /\ managers' = [managers EXCEPT ![i].call =
                  [k |-> "clone", url |-> url, name |-> name, branch |-> branch,
                   force |-> force,
                   prior |-> IF name \in DOMAIN repo_dirs THEN repo_dirs[name] ELSE None]]
            /\ res' = RepoResult("clone", i, name, force, "cloning", <<>>)
    /\ UNCHANGED <<repos_json, default_repo, nclones>>
    /\ UNCHANGED <<loaderVars, renderVars, httpVars, wtVars, cliVars>>

\* save_repos_config(config): the file becomes the configuration given
SaveReposConfig_Merge(config) == config @@ repos_json
SaveReposConfig(config) == config

\* how a clone that reached git ended (prior: the directory it found at its start)
Cloned(i, c, out, msg) ==
    [op |-> "cloned", i |-> i, name |-> c.name, force |-> c.force, out |-> out,
     msg |-> msg, prior |-> c.prior]

CloneFailedText ==
    <<"F", "a", "i", "l", "e", "d", " ", "t", "o", " ", "c", "l", "o", "n", "e", " ", "r", "e",
      "p", "o", "s", "i", "t", "o", "r", "y", ":", " ">>

\* RepoManager.clone from Repo.clone_from on: git clones (or fails: the network,
\* the URL, a directory that appeared meanwhile), the entry is saved
CloneFinish(i, git_ok) ==
    LET c == managers[i].call IN
    /\ c # NoCall /\ c.k = "clone"
    /\ IF git_ok /\ c.name \notin DOMAIN repo_dirs
       THEN LET config == DictSet(managers[i].config, c.name,
                                  ConfigEntry(c.url, c.name, c.branch)) IN
            /\ repo_dirs' = DictSet(repo_dirs, c.name, Clone(c.url, nclones + 1))
            /\ managers' = [managers EXCEPT ![i] = [config |-> config, call |-> NoCall]]
            /\ repos_json' = SaveReposConfig(config)
            /\ res' = Cloned(i, c, "ok", <<>>)
       ELSE /\ repo_dirs' = DictDel(repo_dirs, c.name)
            /\ managers' = [managers EXCEPT ![i].call = NoCall]
            /\ res' = Cloned(i, c, "GitOperationError", CloneFailedText)
            /\ UNCHANGED repos_json
    /\ nclones' = nclones + 1
    /\ UNCHANGED default_repo
    /\ UNCHANGED <<loaderVars, renderVars, httpVars, wtVars, cliVars>>

NotInConfigText(name) ==
    <<"R", "e", "p", "o", "s", "i", "t", "o", "r", "y", " ", "'">> \o <<name>> \o <<"'", " ",
      "n", "o", "t", " ", "f", "o", "u", "n", "d", " ", "i", "n", " ", "c", "o", "n", "f", "i",
      "g">>

\* RepoManager.remove(name)
Remove(i, name) ==
    /\ managers[i].call = NoCall
    /\ IF name \notin DOMAIN managers[i].config
       THEN /\ res' = RepoResult("remove", i, name, FALSE, "GitOperationError",
                                 NotInConfigText(name))
            /\ UNCHANGED <<managers, repo_dirs, repos_json>>
       ELSE LET config == DictDel(managers[i].config, name) IN
            /\ repo_dirs' = DictDel(repo_dirs, name)
            /\ managers' = [managers EXCEPT ![i].config = config]
            /\ repos_json' = SaveReposConfig(config)
            /\ res' = RepoResult("remove", i, name, FALSE, "ok", <<>>)
    /\ UNCHANGED <<default_repo, nclones>>
    /\ UNCHANGED <<loaderVars, renderVars, httpVars, wtVars, cliVars>>

(***************************************************************************)
(* The render route's failure mapping and the API client's error handler   *)
(***************************************************************************)
\* the texts that occur inside failure messages: variable names, prompt paths,
\* version names, and what the underlying library reports
Operands ==
    { NameVar, JoinWith(CommaSpace, <<NameVar, RoleVar>>), <<"a">>, <<"t", "e", "m", "p", "l", "a", "t", "e", "s", "/", "h", "e", "l", "p", "e", "r">>,
      <<"T", "e", "m", "p", "l", "a", "t", "e">>, <<"n", "o", "t", " ", "f", "o", "u", "n", "d">>, <<"N", "o", "t", " ", "F", "o", "u", "n", "d">>, <<"m", "i", "s", "s", "i", "n", "g", " ", "r", "e", "q", "u", "i", "r", "e", "d">>, <<"a", "/", "v", "1">> }

\* str(e) of the failures that reach the handler of the render route
FailureMessages ==
    UNION { { MissingPrefix \o x,
              UndefinedPrefix \o <<"'">> \o x \o IsUndefined,
              RenderingPrefix \o x,
              <<"U", "n", "e", "x", "p", "e", "c", "t", "e", "d", " ", "r", "e", "n", "d", "e", "r", "i", "n", "g", " ", "e", "r", "r", "o", "r", ":", " ">> \o x,
              <<"P", "r", "o", "m", "p", "t", " ", "n", "o", "t", " ", "f", "o", "u", "n", "d", ":", " ">> \o x \o <<" ", "i", "n", " ", "v", "e", "r", "s", "i", "o", "n", " ">> \o x,
              <<"P", "r", "o", "m", "p", "t", " ", "n", "o", "t", " ", "f", "o", "u", "n", "d", ":", " ">> \o x \o <<".", " ", "T", "r", "i", "e", "d", ":", " ">> \o x \o <<".", "y", "a", "m", "l">>,
              <<"V", "e", "r", "s", "i", "o", "n", " ", "'">> \o x \o <<"'", " ", "n", "o", "t", " ", "f", "o", "u", "n", "d", ".", " ", "A", "v", "a", "i", "l", "a", "b", "l", "e", " ", "v", "e", "r", "s", "i", "o", "n", "s", ":", " ", "[", "'", "(", "n", "o", "n", "e", ")", "'", "]">>,
              <<"R", "e", "p", "o", "s", "i", "t", "o", "r", "y", " ", "'">> \o x \o <<"'", " ", "n", "o", "t", " ", "f", "o", "u", "n", "d", ".", " ", "U", "s", "e", " ", "'", "g", "l", "u", "e", "p", "r", "o", "m", "p", "t", " ", "r", "e", "p", "o", " ", "a", "d", "d", " ", "<", "u", "r", "l", ">", "'", " ", "t", "o", " ", "a", "d", "d", " ", "i", "t", ".">>,
              <<"R", "e", "p", "o", "s", "i", "t", "o", "r", "y", " ", "'">> \o x \o <<"'", " ", "p", "a", "t", "h", " ", "n", "o", " ", "l", "o", "n", "g", "e", "r", " ", "e", "x", "i", "s", "t", "s", " ", "a", "t", " ">> \o CacheDirText \o x,
              <<"F", "a", "i", "l", "e", "d", " ", "t", "o", " ", "c", "r", "e", "a", "t", "e", " ", "w", "o", "r", "k", "t", "r", "e", "e", " ", "f", "o", "r", " ">> \o x,
              <<"I", "n", "v", "a", "l", "i", "d", " ", "Y", "A", "M", "L", " ", "i", "n", " ", "p", "r", "o", "m", "p", "t", " ", "f", "i", "l", "e", ":", " ">> \o x,
              <<"I", "n", "v", "a", "l", "i", "d", " ", "p", "r", "o", "m", "p", "t", " ", "p", "a", "t", "h", ":", " ", "p", "a", "t", "h", " ", "e", "s", "c", "a", "p", "e", "s", " ", "p", "r", "o", "m", "p", "t", "s", " ", "d", "i", "r", "e", "c", "t", "o", "r", "y">>,
              <<"P", "r", "o", "m", "p", "t", " ", "t", "e", "m", "p", "l", "a", "t", "e", " ", "i", "s", " ", "r", "e", "q", "u", "i", "r", "e", "d">>,
              <<"P", "r", "o", "m", "p", "t", " ", "v", "a", "l", "i", "d", "a", "t", "i", "o", "n", " ", "f", "a", "i", "l", "e", "d", ":">> \o x } : x \in Operands }

NotFoundText == <<"n", "o", "t", " ", "f", "o", "u", "n", "d">>
MissingRequiredText ==
    <<"m", "i", "s", "s", "i", "n", "g", " ", "r", "e", "q", "u", "i", "r", "e", "d">>
TemplateText == <<"t", "e", "m", "p", "l", "a", "t", "e">>
RenderText == <<"r", "e", "n", "d", "e", "r">>
InternalErrorPrefix ==
    <<"I", "n", "t", "e", "r", "n", "a", "l", " ", "s", "e", "r", "v", "e", "r", " ", "e", "r",
      "r", "o", "r", ":", " ">>

RenderRouteStatus_CaseSensitive(msg) ==
    IF Contains(NotFoundText, msg) THEN 404
    ELSE IF Contains(MissingRequiredText, msg) \/ Contains(TemplateText, msg) THEN 400
    ELSE 500

\* render_prompt, except Exception: the status of the HTTPException raised
RenderRouteStatus(msg) ==
    IF Contains(NotFoundText, Lower(msg)) THEN 404
    ELSE IF Contains(MissingRequiredText, Lower(msg)) \/ Contains(TemplateText, Lower(msg))
    THEN 400
    ELSE 500

\* render_prompt, except Exception: the detail of the HTTPException raised
RenderRouteDetail(msg) ==
    IF RenderRouteStatus(msg) = 500 THEN InternalErrorPrefix \o msg ELSE msg

\* the handler of the render route maps a failure
RenderRouteFailure ==
    /\ res.op # "render_route"
    /\ res' = [op |-> "render_route", out |-> "HTTPException",
               status |-> RenderRouteStatus(error_msg),
               detail |-> RenderRouteDetail(error_msg)]
    /\ UNCHANGED <<loaderVars, otherVars>>

\* str(n) of a natural number
DigitChars == <<"0", "1", "2", "3", "4", "5", "6", "7", "8", "9">>
RECURSIVE IntText(_)
IntText(n) ==
    IF n < 10 THEN <<DigitChars[n + 1]>>
    ELSE IntText(n \div 10) \o <<DigitChars[(n % 10) + 1]>>

\* response.json(): not JSON at all, a JSON object, or a JSON string
NotJson == [k |-> "invalid"]
JsonObject(fields) == [k |-> "object", fields |-> fields]
JsonString(s) == [k |-> "string", s |-> s]

\* response.text of a body that is the JSON value j
JsonText(j) ==
    IF j.k = "string" THEN <<"\"">> \o j.s \o <<"\"">>
    ELSE IF "detail" \in DOMAIN j.fields
    THEN
    <<"{", "\"", "d", "e", "t", "a", "i", "l", "\"", ":",
      "\"">> \o j.fields["detail"] \o <<"\"", "}">>
    ELSE
    <<"{", "\"", "e", "r", "r", "o", "r", "\"", ":", "\"">> \o j.fields["error"] \o <<"\"",
      "}">>

\* an httpx.Response: status_code, text, and what json() gives
Response(status, text, json) == [status_code |-> status, text |-> text, json |-> json]

ErrorDetail_RawText(r) == r.text

\* _handle_http_error: error_detail
ErrorDetail(r) ==
    IF r.json.k = "object" /\ "detail" \in DOMAIN r.json.fields
    THEN r.json.fields["detail"]
    ELSE r.text

ServerErrorPrefix == <<"S", "e", "r", "v", "e", "r", " ", "e", "r", "r", "o", "r", ":", " ">>

Raised(kind, msg) == [op |-> "_handle_http_error", out |-> kind, msg |-> msg]

\* APIPromptRegistry._handle_http_error(response)
HandleHttpErrorOutcome(r) ==
    LET error_detail == ErrorDetail(r) IN
    IF r.status_code = 404 THEN Raised("PromptNotFoundError", error_detail)
    ELSE IF r.status_code = 400
    THEN IF Contains(TemplateText, Lower(error_detail))
            \/ Contains(RenderText, Lower(error_detail))
         THEN Raised("TemplateRenderError", error_detail)
         ELSE Raised("PromptValidationError", error_detail)
    ELSE IF r.status_code = 500
    THEN Raised("GluePromptError", ServerErrorPrefix \o error_detail)
    ELSE Raised("GluePromptError",
                <<"H", "T", "T", "P", " ">> \o IntText(r.status_code) \o <<":", " ">> \o error_detail)

HandleHttpError ==
    /\ res.op # "_handle_http_error"
    /\ res' = HandleHttpErrorOutcome(response)
    /\ UNCHANGED <<loaderVars, otherVars>>

\* the details a server sends, and bodies that are not the server's JSON
Details ==
    { MissingPrefix \o NameVar, RenderingPrefix \o <<"u", "n", "e", "x", "p", "e", "c", "t", "e", "d", " ", "'", "}", "'">>,
      <<"P", "r", "o", "m", "p", "t", " ", "n", "o", "t", " ", "f", "o", "u", "n", "d", ":", " ", "a", " ", "i", "n", " ", "v", "e", "r", "s", "i", "o", "n", " ", "a", "/", "v", "1">>, <<"V", "a", "l", "i", "d", "a", "t", "i", "o", "n", " ", "e", "r", "r", "o", "r">>,
      <<"F", "a", "i", "l", "e", "d", " ", "t", "o", " ", "R", "E", "N", "D", "E", "R">>, <<"P", "r", "o", "m", "p", "t", " ", "T", "e", "m", "p", "l", "a", "t", "e", " ", "i", "s", " ", "r", "e", "q", "u", "i", "r", "e", "d">>,
      InternalErrorPrefix \o <<"b", "o", "o", "m">>, <<"S", "e", "r", "v", "i", "c", "e", " ", "u", "n", "a", "v", "a", "i", "l", "a", "b", "l", "e">> }

StatusCodes == {400, 401, 404, 422, 500, 503}

Responses ==
    { Response(s, JsonText(j), j) :
        s \in StatusCodes,
        j \in { JsonObject([detail |-> d]) : d \in Details }
              \cup { JsonObject([error |-> d]) : d \in Details }
              \cup { JsonString(d) : d \in Details } }
    \cup { Response(s, d, NotJson) : s \in StatusCodes, d \in Details }

(***************************************************************************)
(* WorktreeManager and the server's routes                                 *)
(***************************************************************************)
\* the number of requests the server starts
MaxRequests == 3

\* the requests the server works on at the same time
Procs == {"r1", "r2"}

\* self.worktree_base
WorktreeBase == <<"w">>

\* the text of a character sequence as one path segment
RECURSIVE Str(_)
Str(chars) == IF chars = <<>> THEN "" ELSE Head(chars) \o Str(Tail(chars))

\* s.split(c)
RECURSIVE SplitOn(_, _)
SplitOn(c, s) ==
    IF \A i \in 1..Len(s) : s[i] # c THEN <<s>>
    ELSE LET at == CHOOSE i \in 1..Len(s) : s[i] = c /\ \A j \in 1..(i - 1) : s[j] # c
         IN <<SubSeq(s, 1, at - 1)>> \o SplitOn(c, SubSeq(s, at + 1, Len(s)))

\* pathlib's reading of a path string: its segments, "/" first when absolute
ParsePath(chars) ==
    LET parts == SplitOn("/", chars)
        segs == [i \in 1..Len(parts) |-> Str(parts[i])]
    IN IF chars # <<>> /\ chars[1] = "/" THEN <<"/">> \o Tail(segs) ELSE segs

\* WorktreeManager.get_worktree_path(version)
GetWorktreePath(version) ==
    LET safe_version == ReplaceChar(ReplaceChar(version, "/", "_"), "\\", "_")
    IN PathJoin(WorktreeBase, <<Str(safe_version)>>)

\* the remote-tracking branches origin/<name>
RemoteBranches == (DevRef :> "c1") @@ (MainRef :> "c2")

\* the order in which git lists reference names
BranchOrder == <<DevRef, MainRef>>
TagOrder == <<AV1Ref, AV2Ref, AV3Ref, A_V1Ref, V1Ref, V2Ref>>

\* branch_names + remote_branches + tag_names
AllVersions(local) ==
    SelectSeq(BranchOrder, LAMBDA n : n \in DOMAIN local)
    \o SelectSeq(BranchOrder, LAMBDA n : n \in DOMAIN RemoteBranches)
    \o SelectSeq(TagOrder, LAMBDA n : n \in DOMAIN Tags)

\* str(list) of a list of names
ReprList(names) ==
    <<"[">> \o JoinWith(CommaSpace, [i \in 1..Len(names) |-> <<"'">> \o names[i] \o <<"'">>])
    \o <<"]">>

VersionNotFoundText(version, local) ==
    <<"V", "e", "r", "s", "i", "o", "n", " ", "'">> \o version \o <<"'", " ", "n", "o", "t",
      " ", "f", "o", "u", "n", "d", ".", " ", "A", "v", "a", "i", "l", "a", "b", "l", "e", " ",
      "v", "e", "r", "s", "i", "o", "n", "s", ":", " ">>
    \o ReprList(AllVersions(local))

FailedWorktreeText(version, cause) ==
    <<"F", "a", "i", "l", "e", "d", " ", "t", "o", " ", "c", "r", "e", "a", "t", "e", " ", "w", "o", "r", "k", "t", "r", "e", "e", " ", "f", "o", "r", " ">> \o version \o <<":", " ", "f", "a", "t", "a", "l", ":", " ">> \o cause

PromptNotFoundInVersionText(prompt_path, version) ==
    <<"P", "r", "o", "m", "p", "t", " ", "n", "o", "t", " ", "f", "o", "u", "n", "d", ":", " ">> \o prompt_path \o <<" ", "i", "n", " ", "v", "e", "r", "s", "i", "o", "n", " ">> \o version

PromptNotFoundText(prompt_path) ==
    <<"P", "r", "o", "m", "p", "t", " ", "n", "o", "t", " ", "f", "o", "u", "n", "d", ":",
      " ">> \o prompt_path \o <<".", " ", "T", "r", "i", "e", "d", ":",
      " ">> \o prompt_path \o <<".", "y", "a", "m", "l">>

InvalidPromptText ==
    <<"I", "n", "v", "a", "l", "i", "d", " ", "Y", "A", "M", "L", " ", "i", "n", " ", "p", "r",
      "o", "m", "p", "t", " ", "f", "i", "l", "e">>

EscapesText ==
    <<"I", "n", "v", "a", "l", "i", "d", " ", "p", "r", "o", "m", "p", "t", " ", "p", "a", "t", "h", ":", " ">>
    \o <<"p", "a", "t", "h", " ", "e", "s", "c", "a", "p", "e", "s", " ", "p", "r", "o", "m", "p", "t", "s", " ", "d", "i", "r", "e", "c", "t", "o", "r", "y">>

NoTemplateText ==
    <<"F", "a", "i", "l", "e", "d", " ", "t", "o", " ", "p", "a", "r", "s", "e", " ", "p", "r", "o", "m", "p", "t", " ", "Y", "A", "M", "L", ":", " ">>
    \o <<"P", "r", "o", "m", "p", "t", " ", "t", "e", "m", "p", "l", "a", "t", "e", " ", "i", "s", " ", "r", "e", "q", "u", "i", "r", "e", "d">>

\* str(e) of the PromptValidationError that load raises for the path p
LoadFailureText(f, p) ==
    LET r == ResolvePromptFile(f, p) IN
    IF r.out # "ok" THEN EscapesText
    ELSE IF NodeAt(f, Resolve(f, r.file)).c = "nt" THEN NoTemplateText
    ELSE InvalidPromptText

NoSuchFileText ==
    <<"[", "E", "r", "r", "n", "o", " ", "2", "]", " ", "N", "o", " ", "s", "u", "c", "h", " ",
      "f", "i", "l", "e", " ", "o", "r", " ", "d", "i", "r", "e", "c", "t", "o", "r", "y">>

\* Path.exists() of a worktree path
PathExists(path) ==
    IF path = WorktreeBase THEN wtbase ELSE wtbase /\ path \in DOMAIN wt

\* whether Repo(str(worktree_path)) succeeds: a finished, registered worktree is
\* a repository, a directory that git is still filling may or may not be yet
RepoOpens(path) ==
    IF path \notin DOMAIN wt THEN {FALSE}
    ELSE IF wt[path].k = "partial" THEN BOOLEAN
    ELSE {path \in DOMAIN reg}

\* the files in a worktree directory (a worktree has the files of its commit)
WorktreeFiles(path) ==
    IF path \in DOMAIN wt /\ wt[path].k = "tree" THEN Tree(wt[path].commit) ELSE NoFiles

\* what ensure_worktree asks git to add: tag, local branch, remote branch, or nothing
AddTarget(version, local) ==
    IF version \in DOMAIN Tags
    THEN [k |-> "tag", commit |-> Tags[version], branch |-> <<>>, create |-> FALSE]
    ELSE IF version \in DOMAIN local
    THEN [k |-> "branch", commit |-> local[version], branch |-> version, create |-> FALSE]
    ELSE IF version \in DOMAIN RemoteBranches
    THEN [k |-> "remote", commit |-> RemoteBranches[version], branch |-> version,
          create |-> TRUE]
    ELSE [k |-> "none"]

\* why git worktree add refuses (<<>>: it does not)
GitWorktreeAddRefusal(path, target) ==
    IF target.create /\ target.branch \in DOMAIN branches
    THEN
    <<"a", " ", "b", "r", "a", "n", "c", "h", " ", "o", "f", " ", "t", "h", "a", "t", " ", "n",
      "a", "m", "e", " ", "a", "l", "r", "e", "a", "d", "y", " ", "e", "x", "i", "s", "t", "s">>
    ELSE IF path \in DOMAIN wt \/ path = WorktreeBase
    THEN
    <<"t", "h", "e", " ", "p", "a", "t", "h", " ", "a", "l", "r", "e", "a", "d", "y", " ", "e",
      "x", "i", "s", "t", "s">>
    ELSE IF path \in DOMAIN reg /\ wtbase
    THEN
    <<"t", "h", "e", " ", "p", "a", "t", "h", " ", "i", "s", " ", "a", " ", "m", "i", "s", "s",
      "i", "n", "g", " ", "b", "u", "t", " ", "a", "l", "r", "e", "a", "d", "y", " ", "r", "e",
      "g", "i", "s", "t", "e", "r", "e", "d", " ", "w", "o", "r", "k", "t", "r", "e", "e">>
    ELSE IF /\ target.branch # <<>>
            /\ ~target.create
            /\ \/ head.branch = target.branch
               \/ \E q \in DOMAIN reg : reg[q].branch = target.branch
    THEN
    <<"t", "h", "e", " ", "b", "r", "a", "n", "c", "h", " ", "i", "s", " ", "a", "l", "r", "e",
      "a", "d", "y", " ", "c", "h", "e", "c", "k", "e", "d", " ", "o", "u", "t">>
    ELSE <<>>

\* the stem of a prompt file: its path under the root without the extension
PromptStem(loc) ==
    IF loc \in {YamlLoc, YmlLoc} THEN <<"a">>
    ELSE IF loc = IndexLoc THEN <<"a", "/", "i", "n", "d", "e", "x">>
    ELSE <<"b">>

\* WorktreeManager.list_prompts: the stems of the *.yaml and *.yml files
ListPrompts(f) ==
    { PromptStem(l) : l \in { x \in InsideLocs \ {DirLoc} : f[x].k # "none" } }

PromptResponseOf_NoDefault(p) ==
    [metadata |-> [name |-> p.metadata.name, version |-> p.metadata.version,
                   description |-> p.metadata.description, author |-> p.metadata.author,
                   tags |-> p.metadata.tags],
     template |-> p.template,
     variables |-> [j \in 1..Len(p.variables) |->
        [name |-> p.variables[j].name,
         data |-> [type |-> p.variables[j].type, required |-> p.variables[j].required,
                   default |-> None, description |-> p.variables[j].description]]]]

\* get_prompt: the PromptResponse built from the loaded Prompt (variables: the
\* items of the dict, in its order)
PromptResponseOf(p) ==
    [metadata |-> [name |-> p.metadata.name, version |-> p.metadata.version,
                   description |-> p.metadata.description, author |-> p.metadata.author,
                   tags |-> p.metadata.tags],
     template |-> p.template,
     variables |-> [j \in 1..Len(p.variables) |->
        [name |-> p.variables[j].name,
         data |-> [type |-> p.variables[j].type, required |-> p.variables[j].required,
                   default |-> p.variables[j].default,
                   description |-> p.variables[j].description]]]]

\* APIPromptRegistry._convert_prompt_response
ConvertPromptResponse(r) ==
    [metadata |-> [name |-> r.metadata.name, version |-> r.metadata.version,
                   description |-> r.metadata.description, author |-> r.metadata.author,
                   tags |-> r.metadata.tags],
     template |-> r.template,
     variables |-> [j \in 1..Len(r.variables) |->
        [name |-> r.variables[j].name, type |-> r.variables[j].data.type,
         required |-> r.variables[j].data.required,
         default |-> r.variables[j].data.default,
         description |-> r.variables[j].data.description]]]

\* a call of the WorktreeManager or a request to a route; version is None or
\* Value(text), variables the request's variables
Call(op, version, prompt_path, variables) ==
    [op |-> op, version |-> version, prompt_path |-> prompt_path, variables |-> variables]

Idle == [pc |-> "idle"]

\* the routes get_prompt and render_prompt: tag_name
TagName(prompt_path, version) ==
    ReplaceChar(prompt_path, "/", "-") \o <<"/", "v">> \o version

Routes == {"get_prompt", "render_prompt", "list_prompts_route"}

\* whether the call works on the main checkout: "if version:" in get_prompt and
\* render_prompt, "version is None" in list_prompts
ServesMain(call) ==
    IF call.op \in {"get_prompt", "render_prompt"}
    THEN call.version = None \/ call.version = Value(<<>>)
    ELSE call.version = None

\* the version that reaches ensure_worktree
EnsuredVersion(call) ==
    IF call.op \in {"get_prompt", "render_prompt"}
    THEN TagName(call.prompt_path, call.version.v)
    ELSE call.version.v

\* get_prompt, except Exception: the status of the HTTPException raised
GetRouteStatus(msg) ==
    IF Contains(NotFoundText, Lower(msg)) \/ Contains(<<"n", "o", "t", " ", "e", "x", "i", "s", "t">>, Lower(msg))
    THEN 404
    ELSE 500

\* the status a route gives a failure
RouteStatus(op, msg) ==
    IF op = "get_prompt" THEN GetRouteStatus(msg)
    ELSE IF op = "render_prompt" THEN RenderRouteStatus(msg)
    ELSE 404

WtResult(i, call, out, msg, body) ==
    [op |-> call.op, i |-> i, call |-> call, out |-> out, msg |-> msg, body |-> body,
     status |-> IF call.op \notin Routes THEN 0
                ELSE IF out = "ok" THEN 200
                ELSE RouteStatus(call.op, msg)]

\* what a call makes of a checkout with the files f (worktree: it is the
\* worktree of the call's version, not the main checkout)
ServeOutcome(i, call, f, worktree) ==
    IF call.op = "ensure_worktree"
    THEN WtResult(i, call, "ok", <<>>, GetWorktreePath(EnsuredVersion(call)))
    ELSE IF call.op \in {"list_prompts", "list_prompts_route"}
    THEN WtResult(i, call, "ok", <<>>, ListPrompts(f))
    ELSE LET p == ParsePath(call.prompt_path)
             yaml_path == PathJoin(PromptsDir, AppendExt(p, ".yaml"))
             yml_path == PathJoin(PromptsDir, AppendExt(p, ".yml"))
         IN
         IF /\ worktree
            /\ ~Exists(f, yaml_path)
            /\ ~Exists(f, yml_path)
         THEN WtResult(i, call, "GitOperationError",
                       PromptNotFoundInVersionText(call.prompt_path, EnsuredVersion(call)),
                       None)
         ELSE IF call.op = "get_prompt_path"
         THEN WtResult(i, call, "ok", <<>>,
                       IF Exists(f, yaml_path) THEN yaml_path ELSE yml_path)
         ELSE LET o == ReadPrompt(f, Normalize(p), 0) IN
              IF o.out = "PromptNotFoundError"
              THEN WtResult(i, call, o.out, PromptNotFoundText(call.prompt_path), None)
              ELSE IF o.out # "ok"
              THEN WtResult(i, call, o.out, LoadFailureText(f, Normalize(p)), None)
              ELSE IF call.op = "get_prompt"
              THEN WtResult(i, call, "ok", <<>>, PromptResponseOf(ParsedPrompt(o.obj.c)))
              ELSE LET r == RenderOutcome(ParsedPrompt(o.obj.c), call.variables) IN
                   WtResult(i, call, r.out, r.msg, r.rendered)

NoWorktrees == [d \in {} |-> None]

InFlight(pc, call) ==
    [pc |-> pc, call |-> call, version |-> EnsuredVersion(call),
     path |-> GetWorktreePath(EnsuredVersion(call))]

\* a call on the main checkout: the routes without a version, list_prompts(None)
ServeMain(i, call) ==
    /\ requests[i] = Idle
    /\ nreq < MaxRequests
    /\ ServesMain(call)
    /\ nreq' = nreq + 1
    /\ wtbase' = (wtbase \/ call.op \in Routes)
    /\ res' = ServeOutcome(i, call, fs, FALSE)
    /\ UNCHANGED <<wt, reg, requests>>
    /\ UNCHANGED <<loaderVars, renderVars, repoVars, httpVars, cliVars>>

\* a call for a version begins: a route makes its WorktreeManager (whose
\* constructor makes the base directory), get_worktree_path is computed
StartCall(i, call) ==
    /\ requests[i] = Idle
    /\ nreq < MaxRequests
    /\ ~ServesMain(call)
    /\ nreq' = nreq + 1
    /\ wtbase' = (wtbase \/ call.op \in Routes)
    /\ requests' = [requests EXCEPT ![i] = InFlight("ensure", call)]
    /\ UNCHANGED <<wt, reg, res>>
    /\ UNCHANGED <<loaderVars, renderVars, repoVars, httpVars, cliVars>>

Proceed(i, pc) == requests' = [requests EXCEPT ![i].pc = pc]

Fail(i, out, msg) ==
    /\ requests' = [requests EXCEPT ![i] = Idle]
    /\ res' = WtResult(i, requests[i].call, out, msg, None)

\* ensure_worktree: "if worktree_path.exists()" and the Repo(...) probe
EnsureCheck(i) ==
    LET r == requests[i] IN
    /\ r.pc = "ensure"
    /\ IF PathExists(r.path)
       THEN \E opens \in RepoOpens(r.path) :
               Proceed(i, IF opens THEN "ensured" ELSE "rmtree")
       ELSE Proceed(i, "add")
    /\ UNCHANGED <<wt, wtbase, reg, nreq, res>>
    /\ UNCHANGED <<loaderVars, renderVars, repoVars, httpVars, cliVars>>

\* shutil.rmtree of a directory that another request's git worktree add is
\* filling: it removes the directory, or finds it not empty and raises OSError
DirectoryNotEmptyText ==
    <<"D", "i", "r", "e", "c", "t", "o", "r", "y", " ", "n", "o", "t", " ", "e", "m", "p", "t", "y">>
RmtreeRaces(i) ==
    LET r == requests[i] IN
    /\ r.path \in DOMAIN wt /\ wt[r.path].k = "partial" /\ wt[r.path].by # i
    /\ \E j \in Procs : requests[j] # Idle /\ requests[j].pc = "adding"
                          /\ requests[j].path = r.path

\* ensure_worktree: shutil.rmtree(worktree_path) of a broken worktree
Rmtree(i) ==
    LET r == requests[i] IN
    /\ r.pc = "rmtree"
    /\ IF ~PathExists(r.path)
       THEN /\ Fail(i, "FileNotFoundError", NoSuchFileText)
            /\ UNCHANGED <<wt, wtbase>>
       ELSE \E raced \in (IF RmtreeRaces(i) THEN BOOLEAN ELSE {FALSE}) :
            IF raced
            THEN /\ Fail(i, "OSError", DirectoryNotEmptyText)
                 /\ UNCHANGED <<wt, wtbase>>
            ELSE /\ Proceed(i, "add")
                 /\ wt' = IF r.path = WorktreeBase THEN NoWorktrees ELSE DictDel(wt, r.path)
                 /\ wtbase' = (r.path # WorktreeBase)
                 /\ UNCHANGED res
    /\ UNCHANGED <<reg, nreq>>
    /\ UNCHANGED <<fs, cache, cache_enabled, cache_ttl, clock, nobjs, fsops, stored, gitVars>>
    /\ UNCHANGED <<renderVars, repoVars, httpVars, cliVars>>

\* ensure_worktree: fetch, look the version up, git worktree add (git registers
\* the worktree and makes its directory, then fills it)
WorktreeAdd(i) ==
    LET r == requests[i]
        target == AddTarget(r.version, branches)
    IN
    /\ r.pc = "add"
    /\ IF target.k = "none"
       THEN /\ Fail(i, "GitOperationError", VersionNotFoundText(r.version, branches))
            /\ UNCHANGED <<wt, wtbase, reg, branches>>
       ELSE IF GitWorktreeAddRefusal(r.path, target) # <<>>
       THEN /\ Fail(i, "GitOperationError",
                    FailedWorktreeText(r.version, GitWorktreeAddRefusal(r.path, target)))
            /\ UNCHANGED <<wt, wtbase, reg, branches>>
       ELSE /\ Proceed(i, "adding")
            /\ wt' = DictSet(wt, r.path, [k |-> "partial", commit |-> target.commit,
                                          branch |-> target.branch, by |-> i])
            /\ reg' = DictSet(reg, r.path, [branch |-> target.branch])
            /\ branches' = IF target.create
                           THEN DictSet(branches, target.branch, target.commit)
                           ELSE branches
            /\ wtbase' = TRUE
            /\ UNCHANGED res
    /\ UNCHANGED <<nreq, head, ckpt>>
    /\ UNCHANGED <<fs, cache, cache_enabled, cache_ttl, clock, nobjs, fsops, stored>>
    /\ UNCHANGED <<renderVars, repoVars, httpVars, cliVars>>

\* git worktree add ends: the files are checked out (or the directory is gone)
AddFinish(i) ==
    LET r == requests[i] IN
    /\ r.pc = "adding"
    /\ IF r.path \in DOMAIN wt /\ wt[r.path].k = "partial" /\ wt[r.path].by = i
       THEN /\ Proceed(i, "ensured")
            /\ wt' = [wt EXCEPT ![r.path] =
                        [k |-> "tree", commit |-> @.commit, branch |-> @.branch]]
            /\ UNCHANGED res
       ELSE /\ Fail(i, "GitOperationError",
                    FailedWorktreeText(r.version, <<"c", "o", "u", "l", "d", " ", "n", "o", "t", " ", "c", "h", "e", "c", "k", " ", "o", "u", "t">>))
            /\ UNCHANGED wt
    /\ UNCHANGED <<wtbase, reg, nreq>>
    /\ UNCHANGED <<loaderVars, renderVars, repoVars, httpVars, cliVars>>

\* ensure_worktree has returned the path: the caller reads the worktree
Complete(i) ==
    LET r == requests[i] IN
    /\ r.pc = "ensured"
    /\ requests' = [requests EXCEPT ![i] = Idle]
    /\ res' = ServeOutcome(i, r.call, WorktreeFiles(r.path), TRUE)
    /\ UNCHANGED <<wt, wtbase, reg, nreq>>
    /\ UNCHANGED <<loaderVars, renderVars, repoVars, httpVars, cliVars>>

DotRef == <<".">>

\* the calls made directly on a WorktreeManager
WorktreeCalls ==
    { Call("ensure_worktree", Value(v), <<>>, NoKwargs) :
        v \in {AV1Ref, AV2Ref, A_V1Ref, MainRef, DevRef, DotRef} }
    \cup { Call("get_prompt_path", Value(v), <<"a">>, NoKwargs) : v \in {AV1Ref, AV2Ref} }
    \cup { Call("list_prompts", v, <<>>, NoKwargs) : v \in {None, Value(AV1Ref)} }

\* the requests to the routes
RouteCalls ==
    { Call("get_prompt", v, p, NoKwargs) :
        v \in {None, Value(<<"1">>), Value(<<"2">>)}, p \in {<<"a">>, <<"b">>} }
    \cup { Call("render_prompt", v, <<"a">>, kw) :
             v \in {None, Value(<<"1">>)}, kw \in {NoKwargs, (NameVar :> Value("given"))} }
    \cup { Call("list_prompts_route", v, <<>>, NoKwargs) :
             v \in {None, Value(<<>>), Value(AV2Ref)} }

(***************************************************************************)
(* WorktreeManager.cleanup_unused_worktrees                                *)
(***************************************************************************)
\* version.replace("/", "_").replace("\\", "_")
SafeVersion(version) == ReplaceChar(ReplaceChar(version, "/", "_"), "\\", "_")

\* the version names that have a worktree directory in some behaviour
NamedVersions == {AV1Ref, AV2Ref, AV3Ref, A_V1Ref, V1Ref, V2Ref, MainRef, DevRef}

\* worktree_dir.name, as text
DirName(path) ==
    CHOOSE t \in { SafeVersion(v) : v \in NamedVersions } : Str(t) = path[Len(path)]

\* version = worktree_dir.name.replace("_", "/")
DirVersion(path) == ReplaceChar(DirName(path), "_", "/")

\* the directories cleanup_unused_worktrees removes
Unused(active) == { path \in DOMAIN wt : DirVersion(path) \notin active }

\* cleanup_unused_worktrees(active_versions): git worktree remove --force takes
\* a registered worktree off the registry with its directory, and the fallback
\* rmtree takes the directory alone
Cleanup(active) ==
    /\ wtbase
    /\ \E unused \in {Unused(active)} :
         /\ wt' = [path \in DOMAIN wt \ unused |-> wt[path]]
         /\ reg' = [path \in DOMAIN reg \ unused |-> reg[path]]
         /\ res' = [op |-> "cleanup_unused_worktrees", out |-> "ok", active |-> active,
                    before |-> DOMAIN wt, removed |-> unused]
    /\ UNCHANGED <<wtbase, requests, nreq>>
    /\ UNCHANGED <<loaderVars, renderVars, repoVars, httpVars, cliVars>>

\* the versions whose worktrees are made and cleaned up
CleanupVersions == {AV1Ref, A_V1Ref, DevRef}

(***************************************************************************)
(* PromptRegistry and APIPromptRegistry side by side                       *)
(***************************************************************************)
\* the detail of the HTTPException a route raises for a failure
RouteDetail(op, msg) ==
    IF op = "render_prompt" THEN RenderRouteDetail(msg)
    ELSE IF op = "get_prompt" /\ GetRouteStatus(msg) = 500 THEN InternalErrorPrefix \o msg
    ELSE msg

\* the response FastAPI sends for an HTTPException
ErrorResponse(status, detail) ==
    Response(status, JsonText(JsonObject([detail |-> detail])),
             JsonObject([detail |-> detail]))

Outcome(out, msg) == [out |-> out, msg |-> msg]

\* PromptRegistry.get / PromptRegistry.render on the files f
LocalOutcome(f, call, validate) ==
    LET p == Normalize(ParsePath(call.prompt_path))
        o == ReadPrompt(f, p, 0)
    IN IF o.out = "PromptNotFoundError"
       THEN Outcome(o.out, PromptNotFoundText(call.prompt_path))
       ELSE IF o.out # "ok" THEN Outcome(o.out, LoadFailureText(f, p))
       ELSE IF validate /\ HasValidationErrors(o.obj)
       THEN Outcome("PromptValidationError", ValidationFailedText)
       ELSE IF call.op = "get_prompt" THEN Outcome("ok", <<>>)
       ELSE LET r == RenderOutcome(ParsedPrompt(o.obj.c), call.variables)
            IN Outcome(r.out, r.msg)

\* what the client makes of the response to a call that the server ended with s
ClientReads(call, s) ==
    IF s.out = "ok" THEN [out |-> "ok", msg |-> <<>>, status |-> 200, body |-> s.body]
    ELSE CHOOSE r \in
           { [out |-> e.out, msg |-> e.msg, status |-> s.status, body |-> None] :
               e \in { HandleHttpErrorOutcome(response_) :
                         response_ \in {ErrorResponse(s.status, RouteDetail(call.op, s.msg))} } } :
           TRUE

\* a request of the client to a route of the server, on the main checkout
Requested(f, call) ==
    CHOOSE r \in { ClientReads(call, s) : s \in {ServeOutcome("r1", call, f, FALSE)} } : TRUE

\* APIPromptRegistry.get: validate_and_raise on the converted response r
ValidatedByClient(r, validate) ==
    IF r.out = "ok" /\ validate /\ Validate(ConvertPromptResponse(r.body)) # <<>>
    THEN [r EXCEPT !.out = "PromptValidationError", !.msg = ValidationFailedText]
    ELSE r

\* APIPromptRegistry.get(prompt_path, validate)
ApiGet(f, call, validate) ==
    CHOOSE x \in
      { ValidatedByClient(r, validate) :
          r \in {Requested(f, [call EXCEPT !.op = "get_prompt", !.variables = NoKwargs])} } :
      TRUE

\* APIPromptRegistry.render(prompt_path, validate, **variables): with validate,
\* get(prompt_path, validate=True) comes first, and its failure is the outcome
ApiRender(f, call, validate) ==
    IF validate
    THEN CHOOSE x \in { IF g.out # "ok" THEN g ELSE Requested(f, call) :
                          g \in {ApiGet(f, call, TRUE)} } : TRUE
    ELSE Requested(f, call)

ApiOutcome(f, call, validate) ==
    IF call.op = "get_prompt" THEN ApiGet(f, call, validate) ELSE ApiRender(f, call, validate)

\* a call of APIPromptRegistry
ApiCall(call, validate) ==
    /\ \E o \in {ApiOutcome(fs, call, validate)} :
          res' = [op |-> "api", call |-> call, validate |-> validate, out |-> o.out,
                  msg |-> o.msg, status |-> o.status]
    /\ UNCHANGED <<loaderVars, otherVars>>

\* the same call of PromptRegistry
LocalCall(call, validate) ==
    /\ \E o \in {LocalOutcome(fs, call, validate)} :
          res' = [op |-> "local", call |-> call, validate |-> validate, out |-> o.out,
                  msg |-> o.msg, status |-> 0]
    /\ UNCHANGED <<loaderVars, otherVars>>

RemoteCalls ==
    { Call("get_prompt", None, p, NoKwargs) : p \in {<<"a">>, <<"b">>, <<"c">>} }
    \cup { Call("render_prompt", None, p, kw) :
             p \in {<<"a">>, <<"b">>}, kw \in {NoKwargs, (NameVar :> Value("given"))} }

RemoteContents == {"nv", "sx", "bad", "nt"}

(***************************************************************************)
(* APIPromptRegistry.render, one await at a time                           *)
(***************************************************************************)
NoSession ==
    [pc |-> "idle", call |-> NoCall, validate |-> FALSE, outstanding |-> {},
     inbox |-> None, sent |-> <<>>, fetched |-> "none"]

HttpRequest(method, call) == [method |-> method, call |-> call]

\* self.client.get(url, params) of get(prompt_path, validate=True, version)
GetRequest(call) ==
    HttpRequest("GET", [call EXCEPT !.op = "get_prompt", !.variables = NoKwargs])

\* self.client.post(url, json=request_data.model_dump(), params)
PostRequest(call) == HttpRequest("POST", call)

\* the requests render has issued when it first awaits
RequestsOnEnter_Gather(call, validate) ==
    IF validate THEN <<GetRequest(call), PostRequest(call)>> ELSE <<PostRequest(call)>>

RequestsOnEnter(call, validate) ==
    IF validate THEN <<GetRequest(call)>> ELSE <<PostRequest(call)>>

\* render(prompt_path, validate, **variables) up to its first await
ApiRenderEnter(call, validate) ==
    /\ session.pc = "idle"
    /\ \E qs \in {RequestsOnEnter(call, validate)} :
         session' = [pc |-> IF validate THEN "get" ELSE "post",
                     call |-> call, validate |-> validate,
                     outstanding |-> { qs[n] : n \in 1..Len(qs) },
                     inbox |-> None,
                     sent |-> [n \in 1..Len(qs) |-> qs[n].method],
                     fetched |-> "none"]
    /\ UNCHANGED <<loaderVars, res, renderVars, repoVars, error_msg, response, wtVars, cliVars>>

\* the server handles a request in flight and its response reaches the client
ServerResponds ==
    /\ session.inbox = None
    /\ \E q \in session.outstanding :
         \E r \in {Requested(fs, q.call)} :
           session' = [session EXCEPT !.outstanding = @ \ {q},
                                      !.inbox = Value([method |-> q.method, r |-> r])]
    /\ UNCHANGED <<loaderVars, res, renderVars, repoVars, error_msg, response, wtVars, cliVars>>

\* what render returns or raises
RenderReturned(s, o) ==
    [op |-> "api_render", call |-> s.call, validate |-> s.validate, out |-> o.out,
     msg |-> o.msg, status |-> o.status, sent |-> s.sent, fetched |-> s.fetched]

\* render resumes after `await self.get(prompt_path, validate=True, version=version)`
ApiRenderAfterGet ==
    /\ session.pc = "get"
    /\ session.inbox # None
    /\ session.inbox.v.method = "GET"
    /\ \E g \in {ValidatedByClient(session.inbox.v.r, TRUE)} :
         IF g.out # "ok"
         THEN /\ res' = RenderReturned([session EXCEPT !.fetched = g.out], g)
              /\ session' = NoSession
         ELSE /\ session' = [session EXCEPT !.pc = "post",
                                            !.inbox = None,
                                            !.outstanding = @ \cup {PostRequest(session.call)},
                                            !.sent = Append(@, "POST"),
                                            !.fetched = "ok"]
              /\ UNCHANGED res
    /\ UNCHANGED <<loaderVars, renderVars, repoVars, error_msg, response, wtVars, cliVars>>

\* render resumes after `await self.client.post(...)`
ApiRenderAfterPost ==
    /\ session.pc = "post"
    /\ session.inbox # None
    /\ session.inbox.v.method = "POST"
    /\ res' = RenderReturned(session, session.inbox.v.r)
    /\ session' = NoSession
    /\ UNCHANGED <<loaderVars, renderVars, repoVars, error_msg, response, wtVars, cliVars>>

RenderCalls == { c \in RemoteCalls : c.op = "render_prompt" }

(***************************************************************************)
(* VersionManager.checkout and VersionManager.current_version              *)
(***************************************************************************)
\* repo.branches, in the order git lists them
LocalBranchOrder == <<DevRef, MainRef, V1Ref, V2Ref>>

LocalBranchNames(local) == SelectSeq(LocalBranchOrder, LAMBDA n : n \in DOMAIN local)

\* "Branch or tag '{branch_or_tag}' not found. Available branches: [...],
\* Available tags: [...]"
BranchOrTagNotFoundText(name, local) ==

    <<"B", "r", "a", "n", "c", "h", " ", "o", "r", " ", "t", "a", "g", " ",
      "'">> \o name \o <<"'", " ", "n", "o", "t", " ", "f", "o", "u", "n", "d", ".", " ", "A",
      "v", "a", "i", "l", "a", "b", "l", "e", " ", "b", "r", "a", "n", "c", "h", "e", "s", ":",
      " ">>
    \o ReprList(LocalBranchNames(local))
    \o <<",", " ", "A", "v", "a", "i", "l", "a", "b", "l", "e", " ", "t", "a", "g", "s", ":", " ">> \o ReprList(TagOrder)

\* `except Exception as e: raise VersionError(f"Failed to checkout {branch_or_tag}: {e}")`
FailedToCheckoutText(name, cause) ==
    <<"F", "a", "i", "l", "e", "d", " ", "t", "o", " ", "c", "h", "e", "c", "k", "o", "u", "t", " ">> \o name \o <<":", " ">> \o cause

\* `except GitCommandError as e: raise VersionError(f"Git checkout failed: {e}")`
GitCheckoutFailedText ==

    <<"G", "i", "t", " ", "c", "h", "e", "c", "k", "o", "u", "t", " ", "f", "a", "i", "l", "e",
      "d", ":", " ", "e", "r", "r", "o", "r", ":", " ", "Y", "o", "u", "r", " ", "l", "o", "c",
      "a", "l", " ", "c", "h", "a", "n", "g", "e", "s", " ", "w", "o", "u", "l", "d", " ", "b",
      "e", " ", "o", "v", "e", "r", "w", "r", "i", "t", "t", "e", "n", " ", "b", "y", " ", "c",
      "h", "e", "c", "k", "o", "u", "t">>

VmResult(name, create_branch, how, out, msg) ==
    [op |-> "vm_checkout", name |-> name, create_branch |-> create_branch, how |-> how,
     out |-> out, msg |-> msg, before |-> head, local |-> branches]

\* VersionManager.checkout(branch_or_tag, create_branch)
VersionCheckout(name, create_branch) ==
    /\ \E how \in {CheckoutResolution(name, create_branch)} :
         IF how = "VersionError"
         THEN /\ res' = VmResult(name, create_branch, how, "VersionError",
                                 FailedToCheckoutText(name,
                                     BranchOrTagNotFoundText(name, branches)))
              /\ UNCHANGED <<fs, head, branches>>
         ELSE IF how = "create"
         THEN /\ branches' = (name :> head.commit) @@ branches
              /\ head' = Attached(name, head.commit)
              /\ res' = VmResult(name, create_branch, how, "ok", <<>>)
              /\ UNCHANGED fs
         ELSE \E to \in {GitCheckoutTarget(name)} :
                IF CheckoutConflicts(fs, head.commit, to.commit)
                THEN /\ res' = VmResult(name, create_branch, how, "VersionError",
                                        GitCheckoutFailedText)
                     /\ UNCHANGED <<fs, head, branches>>
                ELSE /\ fs' = CheckedOutFiles(fs, head.commit, to.commit)
                     /\ head' = to
                     /\ res' = VmResult(name, create_branch, how, "ok", <<>>)
                     /\ UNCHANGED branches
    /\ UNCHANGED <<cache, cache_enabled, cache_ttl, clock, nobjs, fsops, stored, ckpt, otherVars>>

\* [tag for tag in self.repo.tags if tag.commit == head_commit]
TagsAt(commit) == SelectSeq(TagOrder, LAMBDA t : Tags[t] = commit)

HeadText == <<"H", "E", "A", "D">>

VersionInfo(branch_or_tag, commit, is_branch) ==
    [branch_or_tag |-> branch_or_tag, commit |-> commit, is_branch |-> is_branch]

\* what current_version() reports for the checkout h: the first tag at the
\* commit of a detached HEAD, "HEAD" when there is none, else the active branch
CurrentVersionOf_LastTag(h) ==
    IF h.branch = <<>>
    THEN IF TagsAt(h.commit) # <<>>
         THEN VersionInfo(TagsAt(h.commit)[Len(TagsAt(h.commit))], h.commit, FALSE)
         ELSE VersionInfo(HeadText, h.commit, FALSE)
    ELSE VersionInfo(h.branch, branches[h.branch], TRUE)

CurrentVersionOf(h) ==
    IF h.branch = <<>>
    THEN IF TagsAt(h.commit) # <<>>
         THEN VersionInfo(TagsAt(h.commit)[1], h.commit, FALSE)
         ELSE VersionInfo(HeadText, h.commit, FALSE)
    ELSE VersionInfo(h.branch, branches[h.branch], TRUE)

\* VersionManager.current_version(); last: the checkout it follows, if it does
CurrentVersion ==
    /\ res.op # "current_version"
    /\ res' = [op |-> "current_version", out |-> "ok", info |-> CurrentVersionOf(head),
               last |-> IF res.op = "vm_checkout"
                        THEN [name |-> res.name, how |-> res.how, out |-> res.out]
                        ELSE [name |-> <<>>, how |-> "none", out |-> "none"]]
    /\ UNCHANGED <<loaderVars, otherVars>>

\* the local branches of the repositories VersionManager is opened on: main
\* alone, main and dev, and main with a branch that has the name of the tag v1
LocalBranchSets ==
    { (MainRef :> "c2"),
      (MainRef :> "c2") @@ (DevRef :> "c1"),
      (MainRef :> "c2") @@ (V1Ref :> "c2") }

CheckoutNames == VersionNames \cup {AV1Ref, A_V1Ref}

(***************************************************************************)
(* The command line: bump_version, the tag names, git_commit               *)
(***************************************************************************)
NoArgs == None

\* a decimal digit, and its value
IsDigit(c) == \E n \in 1..10 : DigitChars[n] = c
DigitValue(c) == (CHOOSE n \in 1..10 : DigitChars[n] = c) - 1

\* str.strip() of the blanks around a text
RECURSIVE Strip(_)
Strip(s) ==
    IF s = <<>> THEN s
    ELSE IF Head(s) = " " THEN Strip(Tail(s))
    ELSE IF s[Len(s)] = " " THEN Strip(SubSeq(s, 1, Len(s) - 1))
    ELSE s

\* the text that int() accepts: blanks around, an optional sign, digits with
\* single underscores between them
Unsigned(s) ==
    IF Strip(s) # <<>> /\ Strip(s)[1] \in {"-", "+"} THEN Tail(Strip(s)) ELSE Strip(s)
IsIntLiteral(s) ==
    LET b == Unsigned(s) IN
    /\ b # <<>>
    /\ IsDigit(b[1]) /\ IsDigit(b[Len(b)])
    /\ \A i \in 1..Len(b) : IsDigit(b[i]) \/ b[i] = "_"
    /\ \A i \in 1..(Len(b) - 1) : ~(b[i] = "_" /\ b[i + 1] = "_")

RECURSIVE NatValue(_, _)
NatValue(b, acc) ==
    IF b = <<>> THEN acc
    ELSE IF Head(b) = "_" THEN NatValue(Tail(b), acc)
    ELSE NatValue(Tail(b), 10 * acc + DigitValue(Head(b)))

\* int(s) of a text that int() accepts
IntValue(s) ==
    IF Strip(s)[1] = "-" THEN 0 - NatValue(Unsigned(s), 0) ELSE NatValue(Unsigned(s), 0)

\* f"{n}" of an integer
FormatInt(n) == IF n < 0 THEN <<"-">> \o IntText(0 - n) ELSE IntText(n)

\* f"{major}.{minor}.{patch}"
FormatVersion(major, minor, patch) ==
    FormatInt(major) \o <<".">> \o FormatInt(minor) \o <<".">> \o FormatInt(patch)

BumpTypes == {"major", "minor", "patch"}

\* the three numbers after the bump
Bumped(major, minor, patch, bump_type) ==
    IF bump_type = "major" THEN FormatVersion(major + 1, 0, 0)
    ELSE IF bump_type = "minor" THEN FormatVersion(major, minor + 1, 0)
    ELSE FormatVersion(major, minor, patch + 1)

\* bump_version(version, bump_type): the new version, or the ValueError of int()
BumpVersion(version, bump_type) ==
    LET split == SplitOn(".", version)
        parts == IF Len(split) # 3 THEN <<<<"1">>, <<"0">>, <<"0">>>> ELSE split
    IN IF \E i \in 1..3 : ~IsIntLiteral(parts[i])
       THEN [out |-> "ValueError", value |-> <<>>]
       ELSE [out |-> "ok",
             value |-> Bumped(IntValue(parts[1]), IntValue(parts[2]), IntValue(parts[3]),
                              bump_type)]

\* a call of bump_version with the arguments args
BumpVersionCall ==
    /\ args # NoArgs /\ args.op = "bump_version"
    /\ res.op # "bump_version"
    /\ \E o \in {BumpVersion(args.version, args.bump_type)} :
          res' = [op |-> "bump_version", out |-> o.out, value |-> o.value]
    /\ UNCHANGED <<loaderVars, renderVars, repoVars, httpVars, wtVars, cliVars>>

\* the version texts given to bump_version
MaxVersionLen == 5
VersionChars == {"0", "1", ".", "-", "a", "_", " "}
\* the texts of at most n characters
Texts(chars, n) == UNION { [1..k -> chars] : k \in 0..n }
BumpArgs(n) ==
    { [op |-> "bump_version", version |-> v, bump_type |-> b] :
        v \in Texts(VersionChars, n), b \in BumpTypes }

\* prompt add, prompt edit: prompt_name and tag_name
CliTagName_Unsanitized(prompt_path, version) == prompt_path \o <<"/", "v">> \o version
CliTagName(prompt_path, version) ==
    ReplaceChar(prompt_path, "/", "-") \o <<"/", "v">> \o version

\* s.endswith(suffix)
EndsWith(s, suffix) ==
    Len(s) >= Len(suffix) /\ SubSeq(s, Len(s) - Len(suffix) + 1, Len(s)) = suffix

YamlExt == <<".", "y", "a", "m", "l">>
YmlExt == <<".", "y", "m", "l">>
HasPromptExt(prompt_path) == EndsWith(prompt_path, YamlExt) \/ EndsWith(prompt_path, YmlExt)

\* prompt add: file_path, as a text under the prompts directory
AddFilePath(prompt_path) ==
    IF ~HasPromptExt(prompt_path) THEN prompt_path \o YamlExt ELSE prompt_path

\* prompt edit: file_path, given the files that exist
EditFilePath(prompt_path, files) ==
    IF ~HasPromptExt(prompt_path)
    THEN IF prompt_path \o YamlExt \in DOMAIN files
         THEN prompt_path \o YamlExt ELSE prompt_path \o YmlExt
    ELSE prompt_path

InitialVersion == <<"1", ".", "0", ".", "0">>

\* the effects of git_commit, in the order of the code
CommitEffect == "commit"
PushEffect == "push"
TagEffect == "tag"
PushTagEffect == "push tag"

\* the warnings git_commit prints
CommitFailedWarning == "Git commit failed"
DetachedWarning == "Detached HEAD, skipping push"
PushFailedWarning == "Push failed"
NoRemoteWarning == "No remote configured, skipping push"

\* the outcomes of one git command: success, GitCommandError, another exception
GitOutcomes == {"ok", "GitCommandError", "Exception"}

\* the working repository before any command, given its head and its remote
WorkRepo(detached, remote) ==
    [pc |-> "idle", files |-> [f \in {} |-> <<>>], commits |-> 0, origin |-> 0,
     tags |-> {}, origin_tags |-> {}, detached |-> detached, remote |-> remote,
     tag |-> None, log |-> <<>>, warnings |-> <<>>, ncmds |-> 0]
NoWork == WorkRepo(FALSE, TRUE)

\* git_commit(repo, file_path, message, tag) is entered
EnterGitCommit(w, tag) ==
    [w EXCEPT !.pc = "commit", !.tag = tag, !.log = <<>>, !.warnings = <<>>]

\* git_commit returns after the warning
ReturnWith_RollBack(w, warning) ==
    [w EXCEPT !.pc = "idle", !.warnings = Append(@, warning), !.commits = 0]
ReturnWith(w, warning) == [w EXCEPT !.pc = "idle", !.warnings = Append(@, warning)]

\* the handler that catches the failure of a step after the commit
Caught(w, outcome) ==
    IF outcome = "GitCommandError" THEN ReturnWith(w, PushFailedWarning)
    ELSE ReturnWith(w, CommitFailedWarning)

\* what git_commit returns to its caller
Returned(w) == [op |-> "git_commit", out |-> "ok", log |-> w.log, warnings |-> w.warnings]

\* one step of git_commit moves the repository from work to w
GitCommitMoves(w) ==
    /\ work' = w
    /\ res' = IF w.pc = "idle" THEN Returned(w) ELSE res
    /\ UNCHANGED <<loaderVars, renderVars, repoVars, httpVars, wtVars, args>>

\* repo.index.add and repo.index.commit
GitCommitCommit(outcome) ==
    /\ work.pc = "commit"
    /\ GitCommitMoves(
          IF outcome # "ok" THEN ReturnWith(work, CommitFailedWarning)
          ELSE [work EXCEPT !.pc = "head", !.commits = @ + 1,
                            !.log = Append(@, CommitEffect)])

\* repo.head.is_detached, repo.active_branch, repo.remote(): a repository
\* without the remote either gives no remote or raises ValueError
GitCommitRemote(raises) ==
    /\ work.pc = "head"
    /\ GitCommitMoves(
          IF work.detached THEN ReturnWith(work, DetachedWarning)
          ELSE IF work.remote THEN [work EXCEPT !.pc = "push"]
          ELSE IF raises THEN ReturnWith(work, CommitFailedWarning)
          ELSE [work EXCEPT !.pc = "tag", !.warnings = Append(@, NoRemoteWarning)])

\* repo.git.push(remote.name, branch)
GitCommitPush(outcome) ==
    /\ work.pc = "push"
    /\ GitCommitMoves(
          IF outcome # "ok" THEN Caught(work, outcome)
          ELSE [work EXCEPT !.pc = IF work.tag # None THEN "tag" ELSE "idle",
                            !.origin = work.commits, !.log = Append(@, PushEffect)])

\* repo.create_tag(tag, ...): fails when the tag exists
GitCommitTag(outcome) ==
    /\ work.pc = "tag"
    /\ work.tag.v \in work.tags => outcome = "GitCommandError"
    /\ GitCommitMoves(
          IF work.tag = None THEN [work EXCEPT !.pc = "idle"]
          ELSE IF outcome # "ok" THEN Caught(work, outcome)
          ELSE [work EXCEPT !.pc = IF work.remote THEN "push tag" ELSE "idle",
                            !.tags = @ \cup {work.tag.v}, !.log = Append(@, TagEffect)])

\* repo.git.push(remote.name, tag)
GitCommitPushTag(outcome) ==
    /\ work.pc = "push tag"
    /\ GitCommitMoves(
          IF outcome # "ok" THEN Caught(work, outcome)
          ELSE [work EXCEPT !.pc = "idle", !.origin_tags = @ \cup {work.tag.v},
                            !.log = Append(@, PushTagEffect)])

\* the number of commands run is capped
MaxCommands == 2

\* glueprompt prompt add <prompt_path>
PromptAdd(prompt_path) ==
    /\ work.pc = "idle" /\ work.ncmds < MaxCommands
    /\ args' = [op |-> "prompt_add", prompt_path |-> prompt_path]
    /\ LET file_path == AddFilePath(prompt_path)
           w == [work EXCEPT !.ncmds = @ + 1]
       IN IF file_path \in DOMAIN work.files
          THEN /\ work' = w
               /\ res' = [op |-> "prompt_add", out |-> "Abort"]
          ELSE /\ work' = EnterGitCommit(
                     [w EXCEPT !.files = (file_path :> InitialVersion) @@ @],
                     Value(CliTagName(prompt_path, InitialVersion)))
               /\ res' = [op |-> "prompt_add", out |-> "ok"]
    /\ UNCHANGED <<loaderVars, renderVars, repoVars, httpVars, wtVars>>

\* glueprompt prompt edit <prompt_path> --bump <bump>
PromptEdit(prompt_path, bump) ==
    /\ work.pc = "idle" /\ work.ncmds < MaxCommands
    /\ args' = [op |-> "prompt_edit", prompt_path |-> prompt_path]
    /\ LET file_path == EditFilePath(prompt_path, work.files)
           w == [work EXCEPT !.ncmds = @ + 1]
       IN IF file_path \notin DOMAIN work.files
          THEN /\ work' = w
               /\ res' = [op |-> "prompt_edit", out |-> "Abort"]
          ELSE \E new_version \in {BumpVersion(work.files[file_path], bump)} :
                  IF new_version.out # "ok"
                  THEN /\ work' = w
                       /\ res' = [op |-> "prompt_edit", out |-> new_version.out]
                  ELSE /\ work' = EnterGitCommit(
                             [w EXCEPT !.files[file_path] = new_version.value],
                             Value(CliTagName(prompt_path, new_version.value)))
                       /\ res' = [op |-> "prompt_edit", out |-> "ok"]
    /\ UNCHANGED <<loaderVars, renderVars, repoVars, httpVars, wtVars>>

\* the prompt paths given on the command line
CliPaths == {<<"a">>, <<"a", "/", "b">>, <<"a", "-", "b">>, <<"a", ".", "y", "m", "l">>}

(***************************************************************************)
(* The default-repository pointer                                          *)
(***************************************************************************)
\* read_text().strip() or None
StrippedOrNone_Raw(text) == Value(text)
StrippedOrNone(text) == IF Strip(text) = <<>> THEN None ELSE Value(Strip(text))

\* get_default_repo()
GetDefaultRepo ==
    /\ res' = [op |-> "get_default_repo", out |-> "ok",
               value |-> IF default_repo # None THEN StrippedOrNone(default_repo.v)
                         ELSE None]
    /\ UNCHANGED <<loaderVars, renderVars, repoVars, httpVars, wtVars, cliVars>>

\* set_default_repo(name): name is a text or None
SetDefaultRepo(name) ==
    /\ args' = [op |-> "set_default_repo", name |-> name]
    /\ default_repo' = IF name # None /\ name.v # <<>> THEN name ELSE None
    /\ res' = [op |-> "set_default_repo", out |-> "ok"]
    /\ UNCHANGED <<loaderVars, renderVars, httpVars, wtVars, work>>
    /\ UNCHANGED <<repos_json, repo_dirs, managers, nclones>>

\* the names and file contents tried
MaxNameLen == 3
NameChars == {"a", "b", " "}
NameTexts(n) == Texts(NameChars, n)

(***************************************************************************)
(* RepoManager.set_default_repo, RepoManager.get_path, get_prompts_dir     *)
(***************************************************************************)
NotFoundUseAddText(name) ==

    <<"R", "e", "p", "o", "s", "i", "t", "o", "r", "y", " ", "'">> \o <<name>> \o <<"'", " ",
      "n", "o", "t", " ", "f", "o", "u", "n", "d", ".", " ", "U", "s", "e", " ", "'", "g", "l",
      "u", "e", "p", "r", "o", "m", "p", "t", " ", "r", "e", "p", "o", " ", "a", "d", "d", " ",
      "<", "u", "r", "l", ">", "'", " ", "t", "o", " ", "a", "d", "d", " ", "i", "t", ".">>

NotFoundAddFirstText(name) ==
    <<"R", "e", "p", "o", "s", "i", "t", "o", "r", "y", " ", "'">> \o <<name>>
    \o
    <<"'", " ", "n", "o", "t", " ", "f", "o", "u", "n", "d", ".", " ", "U", "s", "e", " ", "'",
      "g", "l", "u", "e", "p", "r", "o", "m", "p", "t", " ", "r", "e", "p", "o", " ", "a", "d",
      "d", " ", "<", "u", "r", "l", ">", "'", " ", "t", "o", " ", "a", "d", "d", " ", "i", "t",
      " ", "f", "i", "r", "s", "t", ".">>

PathNoLongerExistsText(name) ==

    <<"R", "e", "p", "o", "s", "i", "t", "o", "r", "y", " ", "'">> \o <<name>> \o <<"'", " ",
      "p", "a", "t", "h", " ", "n", "o", " ", "l", "o", "n", "g", "e", "r", " ", "e", "x", "i",
      "s", "t", "s", " ", "a", "t", " ">> \o CacheDirText \o <<name>>
    \o
    <<".", " ", "U", "s", "e", " ", "'", "g", "l", "u", "e", "p", "r", "o", "m", "p", "t", " ",
      "r", "e", "p", "o", " ", "a", "d", "d", " ", "<", "u", "r", "l", ">", " ", "-", "-", "f",
      "o", "r", "c", "e", "'", " ", "t", "o", " ", "r", "e", "-", "c", "l", "o", "n", "e", ".">>

\* RepoManager.get_path(name) of an instance with the configuration config
GetPath(config, name) ==
    IF name \notin DOMAIN config
    THEN [out |-> "GitOperationError", msg |-> NotFoundUseAddText(name)]
    ELSE IF name \notin DOMAIN repo_dirs
    THEN [out |-> "GitOperationError", msg |-> PathNoLongerExistsText(name)]
    ELSE [out |-> "ok", msg |-> config[name].path]

\* RepoManager.set_default_repo(name): name is a repository name or None
ManagerSetDefaultRepo(i, name) ==
    /\ managers[i].call = NoCall
    /\ IF name # None /\ name.v \notin DOMAIN managers[i].config
       THEN /\ res' = RepoResult("set_default_repo", i, name.v, FALSE, "GitOperationError",
                                 NotFoundAddFirstText(name.v))
            /\ UNCHANGED default_repo
       ELSE /\ default_repo' = IF name # None THEN Value(<<name.v>>) ELSE None
            /\ res' = RepoResult("set_default_repo", i,
                                 IF name # None THEN name.v ELSE "", FALSE, "ok", <<>>)
    /\ UNCHANGED <<repos_json, repo_dirs, managers, nclones>>
    /\ UNCHANGED <<loaderVars, renderVars, httpVars, wtVars, cliVars>>

\* get_prompts_dir(ctx) without --repo: a new RepoManager(), its
\* get_default_repo(), and get_path of the name read
GetPromptsDir ==
    /\ res.op # "get_prompts_dir"
    /\ \E d \in {IF default_repo # None THEN StrippedOrNone(default_repo.v) ELSE None} :
         IF d = None
         THEN res' = [op |-> "get_prompts_dir", out |-> "Abort", msg |-> <<>>, name |-> ""]
         ELSE \E o \in {GetPath(repos_json, Str(d.v))} :
                res' = [op |-> "get_prompts_dir", out |-> o.out, msg |-> o.msg,
                        name |-> Str(d.v)]
    /\ UNCHANGED <<loaderVars, otherVars>>

\* RepoManager().get_path(name), as the CLI calls it for --repo name
GetPathCall(name) ==
    /\ ~(res.op = "get_path" /\ res.name = name)
    /\ \E o \in {GetPath(repos_json, name)} :
         res' = [op |-> "get_path", out |-> o.out, msg |-> o.msg, name |-> name]
    /\ UNCHANGED <<loaderVars, otherVars>>

(***************************************************************************)
(* url_to_repo_name                                                        *)
(***************************************************************************)
\* s.rstrip(chars): every trailing character that is in chars is removed
RECURSIVE RStrip(_, _)
RStrip(s, chars) ==
    IF s # <<>> /\ s[Len(s)] \in chars THEN RStrip(SubSeq(s, 1, Len(s) - 1), chars) ELSE s

\* url.rstrip("/").rstrip(".git").split("/")[-1]
UrlToRepoName(url) ==
    LET parts == SplitOn("/", RStrip(RStrip(url, {"/"}), {".", "g", "i", "t"}))
    IN parts[Len(parts)]

\* a call of url_to_repo_name with the arguments args
UrlToRepoNameCall ==
    /\ args # NoArgs /\ args.op = "url_to_repo_name"
    /\ res.op # "url_to_repo_name"
    /\ res' = [op |-> "url_to_repo_name", out |-> "ok", value |-> UrlToRepoName(args.url)]
    /\ UNCHANGED <<loaderVars, renderVars, repoVars, httpVars, wtVars, cliVars>>

\* the URLs given
MaxUrlLen == 5
UrlChars == {"a", "g", "i", "t", ".", "/"}
UrlArgs(n) == { [op |-> "url_to_repo_name", url |-> u] : u \in Texts(UrlChars, n) }

(***************************************************************************)
(* Specifications                                                          *)
(***************************************************************************)
RenderIdle == the_prompt = NoPrompt /\ kwargs = NoKwargs

RepoIdle ==
    /\ repos_json = NoConfig
    /\ repo_dirs = NoConfig
    /\ managers = [i \in Instances |-> [config |-> NoConfig, call |-> NoCall]]
    /\ default_repo = None
    /\ nclones = 0

HttpIdle == error_msg = <<>> /\ response = Response(0, <<>>, NotJson) /\ session = NoSession

WorktreeIdle ==
    /\ wt = NoWorktrees
    /\ wtbase = TRUE
    /\ reg = NoWorktrees
    /\ requests = [i \in Procs |-> Idle]
    /\ nreq = 0

CliIdle == args = NoArgs /\ work = NoWork

\* the main checkout on main at c2, no loader cache
LoaderIdle ==
    /\ fs = Tree("c2")
    /\ cache = EmptyCache
    /\ cache_enabled = FALSE
    /\ cache_ttl = 0
    /\ clock = 0
    /\ nobjs = 0
    /\ fsops = 0
    /\ stored = NothingStored
    /\ head = Attached(MainRef, "c2")
    /\ branches = (MainRef :> "c2")
    /\ ckpt = -1

InitLoader ==
    /\ CliIdle
    /\ RenderIdle /\ RepoIdle /\ HttpIdle /\ WorktreeIdle
    /\ fs = Tree("c2")
    /\ cache = EmptyCache
    /\ cache_enabled \in BOOLEAN
    /\ cache_ttl = MaxTtl
    /\ clock = 0
    /\ nobjs = 0
    /\ fsops = 0
    /\ res = Done("init", NoArg)
    /\ stored = NothingStored
    /\ head = Attached(MainRef, "c2")
    /\ branches = (MainRef :> "c2")
    /\ ckpt = -1

\* the paths that stay under the prompts directory
PlainPaths == { <<"a">>, <<"a", "">>, <<"b">> }

InitCache ==
    /\ CliIdle
    /\ RenderIdle /\ RepoIdle /\ HttpIdle /\ WorktreeIdle
    /\ fs = Tree("c2")
    /\ cache = EmptyCache
    /\ cache_enabled \in BOOLEAN
    /\ cache_ttl \in 0..MaxTtl
    /\ clock = 0
    /\ nobjs = 0
    /\ fsops = 0
    /\ res = Done("init", NoArg)
    /\ stored = NothingStored
    /\ head = Attached(MainRef, "c2")
    /\ branches = (MainRef :> "c2")
    /\ ckpt = -1

\* the loader's cache over time: loads, invalidations, and the clock
NextCache ==
    \/ \E p \in PlainPaths, uc \in BOOLEAN : Load(p, uc)
    \/ ClearCache
    \/ \E p \in PlainPaths : InvalidateCache(p)
    \/ Tick
    \/ \E l \in {YamlLoc, IndexLoc} : WriteFile(l, "t2")

SpecCache == InitCache /\ [][NextCache]_vars

\* C1: a successful load(p, use_cache) returns the very object that the latest
\* re-read stored under p's cache key exactly when use_cache and caching are on
\* and that entry is younger than cache_ttl and was not cleared or invalidated
\* since; in every other case it returns a newly constructed object. In
\* particular no load returns a stored object of age >= cache_ttl.
C1_CacheIdentity ==
    [][ (res'.op = "load" /\ res'.out = "ok") =>
        LET key == CacheKey(res'.p)
            young == key \in DOMAIN stored /\ clock - stored[key].at < cache_ttl
        IN IF res'.uc /\ cache_enabled /\ young
           THEN res'.obj = stored[key].obj /\ nobjs' = nobjs
           ELSE res'.obj.id = nobjs + 1 /\ nobjs' = nobjs + 1 ]_vars

\* a load answered from the cache one tick after the entry was stored
C1_Witness ==
    /\ res.op = "load" /\ res.hit /\ res.obj.id = 1
    /\ clock = 1 /\ nobjs = 1
    /\ CacheKey(res.p) \in DOMAIN stored /\ stored[CacheKey(res.p)].at = 0

\* path resolution while the files change
NextResolve ==
    \/ \E p \in LogicalPaths, uc \in BOOLEAN : Load(p, uc)
    \/ \E l \in FileLocs, c \in WrittenContents : WriteFile(l, c)
    \/ \E l \in FileLocs : RemoveFile(l)
    \/ \E l \in {YamlLoc, YmlLoc, DirLoc} : MakeLink(l)

SpecResolve == InitLoader /\ [][NextResolve]_vars

\* {root}/{p}.yaml, {root}/{p}.yml, {root}/{p}/index.yaml: the first that exists
\* now (<<>> when none does)
FirstExisting(f, p) ==
    LET found == { i \in 1..3 : Exists(f, Candidates(p)[i]) } IN
    IF found = {} THEN <<>>
    ELSE Candidates(p)[CHOOSE i \in found : \A j \in found : i <= j]

\* p resolves to an existing file whose canonical path is outside the root
Escapes(f, p) ==
    /\ FirstExisting(f, p) # <<>>
    /\ ~IsRelativeTo(Resolve(f, FirstExisting(f, p)), Resolve(f, PromptsDir))

\* C4 as stated: a load of a path that resolves to an existing file outside the
\* root fails with PromptValidationError whatever the cache state, and no load
\* returns a Prompt parsed from a file outside the root.
C4_AsStated ==
    [][ res'.op = "load" =>
        /\ res'.out = "ok" => IsRelativeTo(res'.obj.src, PromptsDir)
        /\ Escapes(fs, res'.p) => res'.out = "PromptValidationError" ]_vars

\* C4 (amended): no load returns a Prompt parsed from a file whose canonical path
\* is outside the root, and a load that is not answered from the cache fails
\* with PromptValidationError for every path that resolves to an existing file
\* outside the root, in each of the three resolution forms.
C4_NoEscape ==
    [][ res'.op = "load" =>
        /\ res'.out = "ok" => IsRelativeTo(res'.obj.src, PromptsDir)
        /\ (~res'.hit /\ Escapes(fs, res'.p)) => res'.out = "PromptValidationError" ]_vars

\* the directory a/ is a symlink that leaves the root, neither a.yaml nor a.yml
\* exists, and load("a") was refused
C4_Witness ==
    /\ res.op = "load" /\ res.p = <<"a">> /\ res.out = "PromptValidationError"
    /\ fs[DirLoc].k = "link" /\ fs[YamlLoc].k = "none" /\ fs[YmlLoc].k = "none"

\* C8 as stated: every successful load(p) returns the prompt parsed from the
\* first existing candidate as the files are at the time of the call, and a
\* load fails with PromptNotFoundError when none of the three exists.
C8_AsStated ==
    [][ res'.op = "load" =>
        /\ res'.out = "ok" =>
              /\ FirstExisting(fs, res'.p) # <<>>
              /\ res'.obj.src = Resolve(fs, FirstExisting(fs, res'.p))
              /\ res'.obj.c = NodeAt(fs, res'.obj.src).c
        /\ FirstExisting(fs, res'.p) = <<>> => res'.out = "PromptNotFoundError" ]_vars

\* C8 (amended): a load(p) that is not answered from the cache returns, when it
\* succeeds, the prompt parsed from the first existing file among p.yaml, p.yml,
\* p/index.yaml as the files are at the time of the call, and fails with
\* PromptNotFoundError when none of the three exists.
C8_ResolutionOrder ==
    [][ (res'.op = "load" /\ ~res'.hit) =>
        /\ res'.out = "ok" =>
              /\ FirstExisting(fs, res'.p) # <<>>
              /\ res'.obj.src = Resolve(fs, FirstExisting(fs, res'.p))
              /\ res'.obj.c = NodeAt(fs, res'.obj.src).c
        /\ FirstExisting(fs, res'.p) = <<>> => res'.out = "PromptNotFoundError" ]_vars

\* a.yaml and a.yml both exist and a load that read the files returned a.yaml's
C8_Witness ==
    /\ res.op = "load" /\ res.p = <<"a">> /\ res.out = "ok" /\ ~res.hit
    /\ fs[YamlLoc].k = "file" /\ fs[YmlLoc].k = "file"
    /\ res.obj.src = YamlLoc

\* the registry over a git working copy
NextRegistry ==
    \/ \E p \in {<<"a">>, <<"b">>}, v \in BOOLEAN : RegistryGet(p, v)
    \/ \E p \in {<<"a">>, <<"b">>} : RegistryValidate(p)
    \/ ClearCache
    \/ Tick
    \/ WriteFile(YamlLoc, "t2")
    \/ \E n \in VersionNames, cb \in BOOLEAN : Checkout(n, cb)
    \/ \E n \in VersionNames : Rollback(n)

SpecRegistry == InitLoader /\ [][NextRegistry]_vars

\* C2: a successful PromptRegistry.checkout or rollback leaves the loader cache
\* empty; from then on neither the cache nor any get/validate result holds a
\* Prompt object constructed before that checkout, and every Prompt constructed
\* by a get/validate holds what the resolved file of the working copy holds at
\* that moment.
C2_CheckoutClearsCache ==
    [][ /\ (res'.op \in {"checkout", "rollback"} /\ res'.out = "ok")
            => cache' = EmptyCache
        /\ ckpt' >= 0 =>
            /\ \A k \in DOMAIN cache' : cache'[k].obj.id > ckpt'
            /\ (res'.op \in {"get", "validate"} /\ res'.obj # NoObj)
                  => res'.obj.id > ckpt'
        /\ (res'.op \in {"get", "validate"} /\ res'.obj # NoObj /\ ~res'.hit)
            => /\ res'.obj.id = nobjs + 1
               /\ res'.obj.src = Resolve(fs, ResolvePromptFile(fs, res'.p).file)
               /\ res'.obj.c = fs[res'.obj.src].c ]_vars

\* a.yml was loaded on main, v1 was checked out, and a get of the same path within
\* the TTL returned a new object read from v1's a.yaml
C2_Witness ==
    /\ res.op = "get" /\ res.out = "ok" /\ res.p = <<"a">>
    /\ cache_enabled /\ clock < cache_ttl
    /\ ckpt >= 1 /\ res.obj.id > ckpt
    /\ head = Detached("c1") /\ res.obj.src = YamlLoc /\ res.obj.c = "t1"
\* rendering: every prompt of up to MaxVars variables, every set of caller values
InitRender ==
    /\ CliIdle
    /\ LoaderIdle /\ RepoIdle /\ HttpIdle /\ WorktreeIdle
    /\ res = Done("init", NoArg)
    /\ the_prompt \in [variables : VariableLists, template : Templates]
    /\ kwargs \in UNION { [D -> {Value("given")}] : D \in SUBSET VarNames }

NextRender == Render

SpecRender == InitRender /\ [][NextRender]_vars

\* the names a text lists, separated by ", "
ListedNames(text) ==
    LET parts == SplitOn(",", text)
    IN [j \in 1..Len(parts) |-> IF j = 1 THEN parts[j] ELSE Tail(parts[j])]

\* the declared default of the optional variable n of p, None when it has none
DeclaredDefault(p, n) ==
    LET at == { i \in 1..Len(p.variables) :
                  /\ p.variables[i].name = n
                  /\ ~p.variables[i].required
                  /\ p.variables[i].default # None }
    IN IF at = {} THEN None ELSE p.variables[CHOOSE i \in at : TRUE].default

\* the required variables of p that neither the caller nor a default provides
AbsentRequired(p, supplied) ==
    { n \in VarNames :
        /\ \E i \in 1..Len(p.variables) : p.variables[i].name = n /\ p.variables[i].required
        /\ n \notin DOMAIN supplied
        /\ DeclaredDefault(p, n) = None }

\* C6: render fails with TemplateRenderError without evaluating the template
\* whenever a required variable is absent from the defaults overlaid by the
\* caller's variables, and its message lists every such name, separated by ", ";
\* when none is absent the template is evaluated.
C6_MissingRequired ==
    res.op = "render" =>
        LET absent == AbsentRequired(the_prompt, kwargs) IN
        IF absent # {}
        THEN /\ res.out = "TemplateRenderError"
             /\ ~res.evaluated
             /\ SubSeq(res.msg, 1, Len(MissingPrefix)) = MissingPrefix
             /\ LET listed == ListedNames(SubSeq(res.msg, Len(MissingPrefix) + 1,
                                                 Len(res.msg)))
                IN /\ Len(listed) = Cardinality(absent)
                   /\ { listed[j] : j \in 1..Len(listed) } = absent
        ELSE res.evaluated

\* two required variables are missing and both are listed
C6_Witness ==
    /\ res.op = "render" /\ res.out = "TemplateRenderError" /\ ~res.evaluated
    /\ Cardinality(AbsentRequired(the_prompt, kwargs)) = 2
    /\ Contains(CommaSpace, res.msg)

\* C7: the value bound to a name when the template is evaluated is the caller's
\* value when the caller supplied one, otherwise the declared default of an
\* optional variable, and the name is unbound when there is neither; the
\* rendered text holds those values.
C7_CallerWins ==
    (res.op = "render" /\ res.evaluated) =>
        /\ \A n \in VarNames :
              IF n \in DOMAIN kwargs
              THEN n \in DOMAIN res.bound /\ res.bound[n] = kwargs[n]
              ELSE IF DeclaredDefault(the_prompt, n) # None
              THEN n \in DOMAIN res.bound /\ res.bound[n] = DeclaredDefault(the_prompt, n)
              ELSE n \notin DOMAIN res.bound
        /\ res.out = "ok" =>
              \A j \in 1..Len(res.rendered) :
                  LET n == the_prompt.template.refs[j] IN
                  res.rendered[j] = IF n \in DOMAIN kwargs THEN kwargs[n]
                                    ELSE DeclaredDefault(the_prompt, n)

\* a variable with a default was also supplied by the caller, and the rendered
\* text holds the caller's value
C7_Witness ==
    /\ res.op = "render" /\ res.out = "ok"
    /\ \E j \in 1..Len(res.rendered) :
          LET n == the_prompt.template.refs[j] IN
          /\ DeclaredDefault(the_prompt, n) = Value("default")
          /\ n \in DOMAIN kwargs
          /\ res.rendered[j] = Value("given")

\* the render route's handler, over the failure messages
InitRenderRoute ==
    /\ CliIdle
    /\ LoaderIdle /\ RenderIdle /\ RepoIdle /\ WorktreeIdle
    /\ res = Done("init", NoArg)
    /\ error_msg \in FailureMessages
    /\ response = Response(0, <<>>, NotJson)
    /\ session = NoSession

NextRenderRoute == RenderRouteFailure

SpecRenderRoute == InitRenderRoute /\ [][NextRenderRoute]_vars

\* C9: the render route gives a failure 404 when its message contains
\* 'not found' in any letter case; otherwise 400 when it contains 'missing
\* required' or 'template' in any letter case; otherwise 500 with the message
\* embedded in the detail. 'Missing required variables: name' gives 400.
C9_StatusMapping ==
    res.op = "render_route" =>
        LET text == Lower(error_msg) IN
        /\ res.status \in {400, 404, 500}
        /\ res.status = 404 <=> Contains(NotFoundText, text)
        /\ res.status = 400 <=>
              /\ ~Contains(NotFoundText, text)
              /\ Contains(MissingRequiredText, text) \/ Contains(TemplateText, text)
        /\ res.status = 500 =>
              /\ res.detail = InternalErrorPrefix \o error_msg
              /\ Contains(error_msg, res.detail)
        /\ res.status # 500 => res.detail = error_msg
        /\ error_msg = MissingPrefix \o NameVar => res.status = 400

\* a message that names a template and says 'Not Found' in capitals: 404 wins
C9_Witness ==
    /\ res.op = "render_route" /\ res.status = 404
    /\ Contains(TemplateText, Lower(error_msg))
    /\ ~Contains(NotFoundText, error_msg)

\* the API client's handler, over the error responses
InitClient ==
    /\ CliIdle
    /\ LoaderIdle /\ RenderIdle /\ RepoIdle /\ WorktreeIdle
    /\ res = Done("init", NoArg)
    /\ error_msg = <<>>
    /\ response \in Responses
    /\ session = NoSession

NextClient == HandleHttpError

SpecClient == InitClient /\ [][NextClient]_vars

InitRepo ==
    /\ CliIdle
    /\ LoaderIdle /\ RenderIdle /\ RepoIdle /\ HttpIdle /\ WorktreeIdle
    /\ res = Done("init", NoArg)

NextRepo ==
    \E i \in Instances :
        \/ NewManager(i)
        \/ \E url \in Urls, name \in RepoNames, branch \in CloneBranches, force \in BOOLEAN :
              CloneStart(i, url, name, branch, force)
        \/ \E git_ok \in BOOLEAN : CloneFinish(i, git_ok)
        \/ \E name \in RepoNames : Remove(i, name)

SpecRepo == InitRepo /\ [][NextRepo]_vars

AlreadyExistsWords == <<"a", "l", "r", "e", "a", "d", "y", " ", "e", "x", "i", "s", "t", "s">>

\* C5: clone(url, name, force=false) on an existing cache_dir/name fails with
\* GitOperationError ('already exists') and changes neither the directory nor
\* repos.json; with force=true the directory is removed before git clones, and
\* when the clone succeeds the directory holds the new clone and repos.json
\* holds the new entry under that name.
C5_CloneExisting ==
    [][ /\ (res'.op = "clone" /\ ~res'.force /\ res'.name \in DOMAIN repo_dirs) =>
              /\ res'.out = "GitOperationError"
              /\ Contains(AlreadyExistsWords, res'.msg)
              /\ repo_dirs' = repo_dirs
              /\ repos_json' = repos_json
        /\ (res'.op = "clone" /\ res'.force /\ res'.name \in DOMAIN repo_dirs) =>
              /\ res'.name \notin DOMAIN repo_dirs'
              /\ nclones' = nclones
              /\ managers'[res'.i].call # NoCall
              /\ repos_json' = repos_json
        /\ (res'.op = "cloned" /\ res'.out = "ok") =>
              LET c == managers[res'.i].call IN
              /\ c.name \notin DOMAIN repo_dirs
              /\ repo_dirs'[c.name] = Clone(c.url, nclones + 1)
              /\ repos_json'[c.name] = ConfigEntry(c.url, c.name, c.branch) ]_vars

\* a forced clone of another URL replaced an existing clone and its entry
C5_Witness ==
    /\ res.op = "cloned" /\ res.out = "ok" /\ res.force
    /\ res.prior # None
    /\ repo_dirs[res.name].url # res.prior.url
    /\ repo_dirs[res.name].id # res.prior.id
    /\ repos_json[res.name].url = repo_dirs[res.name].url

\* the server: requests for versions and for the main checkout, side by side
InitWorktree ==
    /\ CliIdle
    /\ LoaderIdle /\ RenderIdle /\ RepoIdle /\ HttpIdle /\ WorktreeIdle
    /\ res = Done("init", NoArg)

NextWorktree ==
    \E i \in Procs :
        \/ \E call \in WorktreeCalls \cup RouteCalls : ServeMain(i, call)
        \/ \E call \in WorktreeCalls \cup RouteCalls : StartCall(i, call)
        \/ EnsureCheck(i)
        \/ Rmtree(i)
        \/ WorktreeAdd(i)
        \/ AddFinish(i)
        \/ Complete(i)

SpecWorktree == InitWorktree /\ [][NextWorktree]_vars

\* a step of a WorktreeManager call or of a route
ServerStep == requests' # requests \/ nreq' # nreq

\* the directories that the calls taking the step work on
ActingOn ==
    { requests[i].path : i \in { j \in Procs : requests[j] # Idle /\ requests'[j] # requests[j] } }

\* C3: no step of a WorktreeManager call or of a route changes what the main
\* working copy has checked out, and no such step changes a finished worktree
\* other than the one of the version the call is for.
C3_AsStated ==
    [][ ServerStep =>
        /\ head' = head /\ fs' = fs
        /\ \A d \in DOMAIN wt :
              (wt[d].k = "tree" /\ d \notin ActingOn) => (d \in DOMAIN wt' /\ wt'[d] = wt[d])
      ]_vars

\* what holds of C3: the main working copy keeps its branch, commit and files
C3_MainCheckoutKept ==
    [][ ServerStep => (head' = head /\ fs' = fs) ]_vars

\* the worktrees of the tags a/v1 and a/v2 exist side by side, and the prompt a
\* read from the second has another template body than the first holds
C3_Witness ==
    /\ res.op = "get_prompt" /\ res.out = "ok" /\ res.call.version = Value(<<"2">>)
    /\ res.body.template = ParsedPrompt("t2").template
    /\ GetWorktreePath(AV1Ref) \in DOMAIN wt
    /\ wt[GetWorktreePath(AV1Ref)].k = "tree"
    /\ WorktreeFiles(GetWorktreePath(AV1Ref))[YamlLoc] = File("t1")
    /\ head = Attached(MainRef, "c2")

\* the registry used directly and through the server, on files that change
InitRemote ==
    /\ CliIdle
    /\ LoaderIdle /\ RenderIdle /\ RepoIdle /\ HttpIdle /\ WorktreeIdle
    /\ res = Done("init", NoArg)

NextRemote ==
    \/ \E call \in RemoteCalls, validate \in BOOLEAN : ApiCall(call, validate)
    \/ \E call \in RemoteCalls, validate \in BOOLEAN : LocalCall(call, validate)
    \/ \E l \in FileLocs, c \in RemoteContents : WriteFile(l, c)
    \/ \E l \in FileLocs : RemoveFile(l)
    \/ \E l \in {YamlLoc, YmlLoc} : MakeLink(l)

SpecRemote == InitRemote /\ [][NextRemote]_vars

\* what PromptRegistry raises for the call that res reports, on the present files
LocalKind == LocalOutcome(fs, res.call, res.validate)

\* C11: for every failure of get or render, the kind APIPromptRegistry raises
\* (the server maps the failure to a status, the client maps the status back) is
\* the kind PromptRegistry raises for the same call on the same files.
C11_AsStated ==
    (res.op = "api" /\ LocalKind.out # "ok") => res.out = LocalKind.out

\* the failures for which the two kinds do agree: prompt not found, a prompt the
\* validator rejects, an undefined reference, a template syntax error
C11_AgreeingKinds ==
    (/\ res.op = "api"
     /\ \/ LocalKind.out = "PromptNotFoundError"
        \/ LocalKind.msg = ValidationFailedText
        \/ Contains(UndefinedPrefix, LocalKind.msg)
        \/ Contains(RenderingPrefix, LocalKind.msg))
    => res.out = LocalKind.out

\* a render with an undefined reference, raised as TemplateRenderError on both sides
C11_Witness ==
    /\ res.op = "api" /\ res.call.op = "render_prompt"
    /\ res.status = 400
    /\ res.out = "TemplateRenderError"
    /\ LocalKind.out = "TemplateRenderError"
    /\ Contains(UndefinedPrefix, LocalKind.msg)

\* the validator, over prompts of every shape
InitValidator ==
    /\ CliIdle
    /\ LoaderIdle /\ RepoIdle /\ HttpIdle /\ WorktreeIdle
    /\ the_prompt \in ValidatorPrompts
    /\ kwargs = NoKwargs
    /\ res = Done("init", NoArg)

NextValidator == ValidatorValidate \/ ValidateAndRaise

SpecValidator == InitValidator /\ [][NextValidator]_vars

\* the five conditions of a valid prompt
NameGiven == the_prompt.metadata.name # <<>>
TemplateParses == the_prompt.template.ok
ReferencesDeclared ==
    \A i \in 1..Len(the_prompt.template.refs) :
        \E j \in 1..Len(the_prompt.variables) :
            the_prompt.variables[j].name = the_prompt.template.refs[i]
NoRequiredDefault ==
    \A j \in 1..Len(the_prompt.variables) :
        ~(the_prompt.variables[j].required /\ the_prompt.variables[j].default # None)
TypesLegal ==
    \A j \in 1..Len(the_prompt.variables) : the_prompt.variables[j].type \in ValidTypes

\* an error of the list that begins with the text
Reported(text) ==
    \E i \in 1..Len(res.errors) :
        Len(res.errors[i]) >= Len(text) /\ SubSeq(res.errors[i], 1, Len(text)) = text

\* an error of the list that contains the text
Mentions(text) == \E i \in 1..Len(res.errors) : Contains(text, res.errors[i])

GetCalls ==
    { Call("get_prompt", v, p, NoKwargs) :
        v \in {None, Value(<<"1">>), Value(<<"2">>), Value(<<"3">>)},
        p \in {<<"a">>, <<"b">>} }

NextGet ==
    \E i \in Procs :
        \/ \E call \in GetCalls : ServeMain(i, call)
        \/ \E call \in GetCalls : StartCall(i, call)
        \/ EnsureCheck(i)
        \/ Rmtree(i)
        \/ WorktreeAdd(i)
        \/ AddFinish(i)
        \/ Complete(i)

SpecGet == InitWorktree /\ [][NextGet]_vars

\* the response carries the fields of the prompt
SameFields(body, p) ==
    /\ body.metadata.name = p.metadata.name
    /\ body.metadata.version = p.metadata.version
    /\ body.metadata.description = p.metadata.description
    /\ body.metadata.author = p.metadata.author
    /\ body.metadata.tags = p.metadata.tags
    /\ body.template = p.template
    /\ Len(body.variables) = Len(p.variables)
    /\ \A j \in 1..Len(p.variables) :
          /\ body.variables[j].name = p.variables[j].name
          /\ body.variables[j].data.type = p.variables[j].type
          /\ body.variables[j].data.required = p.variables[j].required
          /\ body.variables[j].data.default = p.variables[j].default
          /\ body.variables[j].data.description = p.variables[j].description

\* the Loader's reading of the call's prompt in the files f
Loaded(call, f) == ReadPrompt(f, Normalize(ParsePath(call.prompt_path)), 0)

\* the request r answers a prompt the Loader parses with all of its fields
Answered(call, f, r) ==
    Loaded(call, f).out = "ok" =>
        /\ r.out = "ok" /\ r.status = 200
        /\ SameFields(r.body, ParsedPrompt(Loaded(call, f).obj.c))

\* the prompt is stored in f as {p}.yaml or {p}.yml
StoredAsFile(call, f) ==
    LET p == ParsePath(call.prompt_path) IN
    \/ Exists(f, PathJoin(PromptsDir, AppendExt(p, ".yaml")))
    \/ Exists(f, PathJoin(PromptsDir, AppendExt(p, ".yml")))

\* the request i reads the worktree of its version in this step
ReadsWorktree(i) ==
    /\ requests[i] # Idle /\ requests[i].pc = "ensured" /\ requests'[i] = Idle
    /\ requests[i].call.op = "get_prompt"

\* a request on the main checkout is served in this step
ReadsMain == nreq' = nreq + 1 /\ requests' = requests /\ res'.op = "get_prompt"

InitBump ==
    /\ LoaderIdle /\ RenderIdle /\ RepoIdle /\ HttpIdle /\ WorktreeIdle
    /\ work = NoWork
    /\ args \in BumpArgs(MaxVersionLen)
    /\ res = Done("init", NoArg)

NextBump == BumpVersionCall

SpecBump == InitBump /\ [][NextBump]_vars

\* the parts of the version given
VersionParts == SplitOn(".", args.version)
ThreeIntegers ==
    Len(VersionParts) = 3 /\ \A i \in 1..3 : IsIntLiteral(VersionParts[i])
PartValue(i) == IF ThreeIntegers THEN IntValue(VersionParts[i]) ELSE <<1, 0, 0>>[i]

\* the version the bump is expected to give from the numbers major.minor.patch
Incremented ==
    CASE args.bump_type = "major" -> FormatVersion(PartValue(1) + 1, 0, 0)
      [] args.bump_type = "minor" -> FormatVersion(PartValue(1), PartValue(2) + 1, 0)
      [] OTHER -> FormatVersion(PartValue(1), PartValue(2), PartValue(3) + 1)

\* C13 as stated: bump_version never raises; three integers are bumped, every
\* other text gives the bump of 1.0.0.
C13_AsStated ==
    res.op = "bump_version" => (res.out = "ok" /\ res.value = Incremented)

\* C13, what the code does: three integers are bumped; a text that does not
\* have three dot-separated parts gives the bump of 1.0.0; a text of three
\* parts of which one is not an integer raises ValueError.
C13_BumpOrValueError ==
    res.op = "bump_version" =>
        IF Len(VersionParts) = 3 /\ ~ThreeIntegers
        THEN res.out = "ValueError"
        ELSE res.out = "ok" /\ res.value = Incremented

\* a text of three parts, the first not a number, has raised ValueError
C13_Witness ==
    /\ res.op = "bump_version" /\ res.out = "ValueError"
    /\ args.version = <<"a", ".", "0", ".", "0">>

\* prompt add and prompt edit on one repository, every git command free to fail
InitCli ==
    /\ LoaderIdle /\ RenderIdle /\ RepoIdle /\ HttpIdle /\ WorktreeIdle
    /\ args = NoArgs
    /\ \E detached \in BOOLEAN, remote \in BOOLEAN, v \in {InitialVersion, <<"1", ".", "x", ".", "0">>} :
          work = [WorkRepo(detached, remote) EXCEPT
                     !.files = (<<"a", ".", "y", "m", "l">> :> v)]
    /\ res = Done("init", NoArg)

NextCli ==
    \/ \E p \in CliPaths : PromptAdd(p)
    \/ \E p \in CliPaths, b \in BumpTypes : PromptEdit(p, b)
    \/ \E o \in GitOutcomes : GitCommitCommit(o)
    \/ \E raises \in BOOLEAN : GitCommitRemote(raises)
    \/ \E o \in GitOutcomes : GitCommitPush(o)
    \/ \E o \in GitOutcomes : GitCommitTag(o)
    \/ \E o \in GitOutcomes : GitCommitPushTag(o)

SpecCli == InitCli /\ [][NextCli]_vars

\* the version the command in progress has written to the prompt file
WrittenVersion ==
    IF args.op = "prompt_add" THEN InitialVersion
    ELSE work.files[EditFilePath(args.prompt_path, work.files)]

\* the path with every "/" replaced by "-", then "/v", then the version
SpecTagName(p, v) ==
    [i \in 1..(Len(p) + 2 + Len(v)) |->
        IF i <= Len(p) THEN (IF p[i] = "/" THEN "-" ELSE p[i])
        ELSE IF i = Len(p) + 1 THEN "/"
        ELSE IF i = Len(p) + 2 THEN "v"
        ELSE v[i - Len(p) - 2]]

\* C14: the tag that prompt add and prompt edit hand to git_commit is the tag
\* the server asks the WorktreeManager for, given the same path and version:
\* the path with "/" replaced by "-", then "/v" and the version.
C14_SameTagName ==
    work.pc # "idle" =>
        /\ work.tag = Value(TagName(args.prompt_path, WrittenVersion))
        /\ work.tag.v = SpecTagName(args.prompt_path, WrittenVersion)

\* prompt edit a/b has bumped 1.0.0 and is committing with the tag a-b/v1.0.1
C14_Witness ==
    /\ work.pc = "commit" /\ args # NoArgs /\ args.op = "prompt_edit"
    /\ args.prompt_path = <<"a", "/", "b">>
    /\ work.tag = Value(<<"a", "-", "b", "/", "v", "1", ".", "0", ".", "1">>)

\* the effects of a complete git_commit with a remote
AllEffects == <<CommitEffect, PushEffect, TagEffect, PushTagEffect>>
IsPrefixOf(s, t) == Len(s) <= Len(t) /\ SubSeq(t, 1, Len(s)) = s

\* the effects made so far are in the order of the four steps
InOrder(log) ==
    \/ IsPrefixOf(log, AllEffects)
    \/ ~work.remote /\ log = <<CommitEffect, TagEffect>>

\* nothing that was committed, pushed or tagged is taken back by a step
EffectsKept ==
    /\ work'.commits >= work.commits
    /\ work'.origin >= work.origin
    /\ work.tags \subseteq work'.tags
    /\ work.origin_tags \subseteq work'.origin_tags

\* C18: git_commit makes its effects in the order commit, push, create tag,
\* push tag; no step undoes an earlier effect, whether it succeeds or fails;
\* git_commit returns normally, with a warning whenever a step was not made.
C18_CommitOrder ==
    /\ [](InOrder(work.log))
    /\ [][EffectsKept]_vars
    /\ [](res.op = "git_commit" =>
            /\ res.out = "ok"
            /\ InOrder(res.log)
            /\ res.log # AllEffects => res.warnings # <<>>)

\* the push of the tag has failed after commit, push and tag: all three remain
C18_Witness ==
    /\ res.op = "git_commit" /\ work.pc = "idle"
    /\ res.log = <<CommitEffect, PushEffect, TagEffect>>
    /\ res.warnings = <<PushFailedWarning>>
    /\ work.commits = 1 /\ work.origin = 1 /\ work.tag.v \in work.tags
    /\ work.tag.v \notin work.origin_tags

\* the pointer file, absent or with any content, under sets and reads
InitDefault ==
    /\ LoaderIdle /\ RenderIdle /\ HttpIdle /\ WorktreeIdle /\ CliIdle
    /\ repos_json = NoConfig /\ repo_dirs = NoConfig /\ nclones = 0
    /\ managers = [i \in Instances |-> [config |-> NoConfig, call |-> NoCall]]
    /\ default_repo \in {None} \cup { Value(t) : t \in NameTexts(MaxNameLen) }
    /\ res = Done("init", NoArg)

NextDefault ==
    \/ GetDefaultRepo
    \/ \E name \in {None} \cup { Value(t) : t \in NameTexts(MaxNameLen) } : SetDefaultRepo(name)

SpecDefault == InitDefault /\ [][NextDefault]_vars

\* a read that follows a set
ReadAfterSet == res.op = "get_default_repo" /\ args # NoArgs

\* C15 as stated: after set_default_repo(X) with a non-empty X the read gives X;
\* after set_default_repo(no value) there is no file and the read gives no
\* value; a read with no file gives no value.
C15_AsStated ==
    /\ ReadAfterSet =>
          IF args.name # None /\ args.name.v # <<>>
          THEN res.value = args.name
          ELSE default_repo = None /\ res.value = None
    /\ (res.op = "get_default_repo" /\ default_repo = None) => res.value = None

\* C15: after set_default_repo(X) the read gives X with the blanks around it
\* removed, so X itself when X is non-empty and has no blanks around it, and no
\* value when X is all blanks; after set_default_repo(no value or empty) there
\* is no file and the read gives no value; a read with no file gives no value;
\* the last set decides.
C15_RoundTrip ==
    /\ ReadAfterSet =>
          IF args.name # None /\ args.name.v # <<>>
          THEN /\ default_repo = args.name
               /\ res.value = IF Strip(args.name.v) = <<>> THEN None
                              ELSE Value(Strip(args.name.v))
               /\ Strip(args.name.v) = args.name.v => res.value = args.name
          ELSE default_repo = None /\ res.value = None
    /\ (res.op = "get_default_repo" /\ default_repo = None) => res.value = None

\* the name "ab" was set and then read back
C15_Witness ==
    /\ ReadAfterSet /\ args.name = Value(<<"a", "b">>)
    /\ res.value = Value(<<"a", "b">>)

\* url_to_repo_name, over every short URL
InitUrl ==
    /\ LoaderIdle /\ RenderIdle /\ RepoIdle /\ HttpIdle /\ WorktreeIdle
    /\ work = NoWork
    /\ args \in UrlArgs(MaxUrlLen)
    /\ res = Done("init", NoArg)

NextUrl == UrlToRepoNameCall

SpecUrl == InitUrl /\ [][NextUrl]_vars

\* the URL without one trailing slash, then without one trailing ".git"
DotGit == <<".", "g", "i", "t">>
WithoutSlash(url) ==
    IF url # <<>> /\ url[Len(url)] = "/" THEN SubSeq(url, 1, Len(url) - 1) ELSE url
WithoutDotGit(s) == IF EndsWith(s, DotGit) THEN SubSeq(s, 1, Len(s) - 4) ELSE s
StatedName(url) ==
    LET parts == SplitOn("/", WithoutDotGit(WithoutSlash(url))) IN parts[Len(parts)]

\* C17 as stated: the name is the last segment of the URL without one trailing
\* slash and one trailing ".git"; nothing else is removed.
C17_AsStated ==
    res.op = "url_to_repo_name" => res.value = StatedName(args.url)

\* C17, what the code does: the name is the stated one when what is left of
\* the URL after the slash and the ".git" does not end in "/", ".", "g", "i"
\* or "t"; otherwise those trailing characters are removed as well.
C17_TrailingCharacters ==
    res.op = "url_to_repo_name" =>
        LET left == WithoutDotGit(WithoutSlash(args.url)) IN
        /\ (left = <<>> \/ left[Len(left)] \notin {"/", ".", "g", "i", "t"}) =>
              res.value = StatedName(args.url)
        /\ res.value = <<>> \/ res.value[Len(res.value)] \notin {".", "g", "i", "t"}

\* the repository a/git has been given the empty name
C17_Witness ==
    /\ res.op = "url_to_repo_name"
    /\ args.url = <<"a", "/", "g", "i", "t">>
    /\ res.value = <<>>

\* two calls of ensure_worktree for one version that has no worktree yet
RaceVersions == {AV1Ref, AV2Ref, DevRef}
StartRace(i, v) ==
    /\ nreq < Cardinality(Procs)
    /\ \A j \in Procs : requests[j] # Idle => requests[j].version = v
    /\ res.op = "ensure_worktree" => res.call.version = Value(v)
    /\ StartCall(i, Call("ensure_worktree", Value(v), <<>>, NoKwargs))

NextRace ==
    \E i \in Procs :
        \/ \E v \in RaceVersions : StartRace(i, v)
        \/ EnsureCheck(i)
        \/ Rmtree(i)
        \/ WorktreeAdd(i)
        \/ AddFinish(i)
        \/ Complete(i)

SpecRace == InitWorktree /\ [][NextRace]_vars

\* the call i fails inside ensure_worktree in this step
EnsureFails(i) ==
    /\ requests[i] # Idle /\ requests[i].pc \in {"rmtree", "add", "adding"}
    /\ requests'[i] = Idle

\* the creation attempt of i is made in this step, after another one: git has
\* a worktree registered for the path (an attempt that git accepted, here or
\* earlier, was made with nothing registered and is the first)
SecondAttempt(i) == requests[i].pc = "add" /\ requests[i].path \in DOMAIN reg

\* C19 as stated: a call of the race fails only with GitOperationError, and
\* only in its creation attempt when that attempt is the second.
C19_AsStated ==
    [][\A i \in Procs :
          EnsureFails(i) => (res'.out = "GitOperationError" /\ SecondAttempt(i))]_vars

\* C19, the part that holds: the call whose creation attempt is the second
\* fails with GitOperationError, and a call that finds the worktree complete
\* returns its path.
C19_SecondAttemptRefused ==
    [][\A i \in Procs :
          /\ (EnsureFails(i) /\ SecondAttempt(i)) => res'.out = "GitOperationError"
          /\ (requests[i] # Idle /\ requests[i].pc = "ensured" /\ requests'[i] = Idle) =>
                 (res'.out = "ok" /\ res'.body = requests[i].path)]_vars

\* the first creation attempt has failed: the other call removed the directory
\* that git was filling
C19_Witness ==
    /\ res.op = "ensure_worktree" /\ res.out = "GitOperationError"
    /\ Contains(<<"c", "o", "u", "l", "d", " ", "n", "o", "t", " ", "c", "h", "e", "c", "k">>, res.msg)
    /\ \E j \in Procs : requests[j] # Idle /\ requests[j].pc = "add"
                          /\ requests[j].version = res.call.version.v

\* the configuration c with one name added or one name taken out
OneUpdateOf(c, d) ==
    \E n \in RepoNames :
        \/ d = DictDel(c, n)
        \/ n \in DOMAIN d /\ DictDel(d, n) = DictDel(c, n)

\* C20: the registry file is only ever rewritten whole from the configuration
\* an instance read at its construction and then changed by its own clone or
\* remove, whatever the file holds at that moment; so two instances that each
\* complete a clone of a different name can leave a file without one of them.
C20_WholeRewrite ==
    [][repos_json' # repos_json =>
          \E i \in Instances :
              /\ repos_json' = managers'[i].config
              /\ OneUpdateOf(managers[i].config, managers'[i].config)]_vars

\* both p and q were cloned with success, by different instances, and the file
\* names only the one cloned last
C20_Witness ==
    /\ DOMAIN repo_dirs = {"p", "q"}
    /\ res.op = "cloned" /\ res.out = "ok"
    /\ DOMAIN repos_json = {res.name}
    /\ \E i \in Instances : i # res.i /\ DOMAIN managers[i].config = {"p", "q"} \ {res.name}


\* render through the API, step by step, on files that change
InitAwait == InitRemote

NextAwait ==
    \/ \E call \in RenderCalls, validate \in BOOLEAN : ApiRenderEnter(call, validate)
    \/ ServerResponds
    \/ ApiRenderAfterGet
    \/ ApiRenderAfterPost
    \/ \E l \in FileLocs, c \in RemoteContents : WriteFile(l, c)
    \/ \E l \in FileLocs : RemoveFile(l)

SpecAwait == InitAwait /\ [][NextAwait]_vars

\* C21: render with validate=true issues the GET and then the POST one after
\* the other, never both outstanding; the POST is not issued when the GET
\* returned an error status or the fetched prompt failed validation; with
\* validate=false the POST is the only request.
C21_Sequential ==
    /\ Cardinality(session.outstanding) <= 1
    /\ (session.pc = "get") => session.sent = <<"GET">>
    /\ (session.pc = "post" /\ session.validate) =>
          /\ session.sent = <<"GET", "POST">>
          /\ session.fetched = "ok"
          /\ \A q \in session.outstanding : q.method = "POST"
    /\ (session.pc = "post" /\ ~session.validate) => session.sent = <<"POST">>
    /\ res.op = "api_render" =>
          res.sent = IF ~res.validate THEN <<"POST">>
                     ELSE IF res.fetched = "ok" THEN <<"GET", "POST">>
                     ELSE <<"GET">>

\* a render that stopped after the GET because the fetched prompt failed the
\* client's validation, and one that stopped on an error status
C21_Witness ==
    /\ res.op = "api_render"
    /\ res.validate
    /\ res.fetched = "PromptValidationError"
    /\ res.status = 200
    /\ res.sent = <<"GET">>

C21_WitnessPost ==
    /\ res.op = "api_render"
    /\ res.validate
    /\ res.sent = <<"GET", "POST">>
    /\ res.out # "ok"

\* VersionManager on a working copy whose files are edited
InitVersion ==
    /\ CliIdle
    /\ RenderIdle /\ RepoIdle /\ HttpIdle /\ WorktreeIdle
    /\ fs = Tree("c2")
    /\ cache = EmptyCache
    /\ cache_enabled = FALSE
    /\ cache_ttl = 0
    /\ clock = 0
    /\ nobjs = 0
    /\ fsops = 0
    /\ stored = NothingStored
    /\ head = Attached(MainRef, "c2")
    /\ branches \in LocalBranchSets
    /\ ckpt = -1
    /\ res = Done("init", NoArg)

NextVersion ==
    \/ \E n \in CheckoutNames, cb \in BOOLEAN : VersionCheckout(n, cb)
    \/ CurrentVersion
    \/ \E l \in {YamlLoc, YmlLoc}, c \in WrittenContents : WriteFile(l, c)

SpecVersion == InitVersion /\ [][NextVersion]_vars

\* the checkout the call asked for, by the stated order of resolution
StatedHead(r) ==
    IF r.name \in DOMAIN Tags THEN Detached(Tags[r.name])
    ELSE IF r.name \in DOMAIN r.local THEN Attached(r.name, r.local[r.name])
    ELSE Attached(r.name, r.before.commit)

NoneApplies(r) ==
    /\ r.name \notin DOMAIN Tags
    /\ r.name \notin DOMAIN r.local
    /\ ~r.create_branch

ListsKnownNames(r) ==
    \A n \in DOMAIN r.local \cup DOMAIN Tags : Contains(<<"'">> \o n \o <<"'">>, r.msg)

\* C22: checkout(name, create_branch) resolves name as an existing tag (HEAD
\* left detached), else as an existing local branch, else as a new branch when
\* create_branch is set; when none applies it fails with VersionError whose
\* message lists the known branch and tag names, and a failed call leaves the
\* checked-out branch and commit as they were.
C22_AsStated ==
    res.op = "vm_checkout" =>
        /\ res.out = "ok" => head = StatedHead(res)
        /\ NoneApplies(res) => res.out = "VersionError" /\ ListsKnownNames(res)
        /\ res.out = "VersionError" => head = res.before /\ branches = res.local

\* the same for every name that is not both a tag and a local branch
C22_UnlessShadowed ==
    (res.op = "vm_checkout" /\ ~(res.name \in DOMAIN Tags /\ res.name \in DOMAIN res.local)) =>
        /\ res.out = "ok" => head = StatedHead(res)
        /\ NoneApplies(res) => res.out = "VersionError" /\ ListsKnownNames(res)
        /\ res.out = "VersionError" => head = res.before /\ branches = res.local

\* a name found among the tags, checked out by git as the branch of that name
C22_Witness ==
    /\ res.op = "vm_checkout"
    /\ res.name = V1Ref
    /\ res.how = "tag"
    /\ res.out = "ok"
    /\ head = Attached(V1Ref, "c2")
    /\ Tags[V1Ref] = "c1"

\* a failed checkout of an unknown name, the message listing the names
C22_WitnessNotFound ==
    /\ res.op = "vm_checkout"
    /\ res.name = DevRef
    /\ res.out = "VersionError"
    /\ ListsKnownNames(res)
    /\ head = res.before

\* C30: after a successful checkout(name), current_version() reports
\* branch_or_tag = name, with is_branch = false when name was resolved as a tag
\* and is_branch = true when it was resolved or created as a branch, also with
\* several tags on one commit.
C30_AsStated ==
    (res.op = "current_version" /\ res.last.out = "ok") =>
        /\ res.info.branch_or_tag = res.last.name
        /\ res.info.is_branch = (res.last.how # "tag")

\* what does hold: a branch is reported by its name; a detached HEAD is
\* reported as the first tag, in the order of the tag names, on its commit
C30_FirstTagOfCommit ==
    (res.op = "current_version" /\ res.last.out = "ok") =>
        /\ res.info.is_branch = (head.branch # <<>>)
        /\ res.info.is_branch => res.info.branch_or_tag = res.last.name
        /\ ~res.info.is_branch =>
              /\ res.last.how = "tag"
              /\ Tags[res.info.branch_or_tag] = Tags[res.last.name]
              /\ \A t \in DOMAIN Tags :
                    Tags[t] = head.commit =>
                        \E i, j \in 1..Len(TagOrder) :
                            /\ TagOrder[i] = res.info.branch_or_tag
                            /\ TagOrder[j] = t
                            /\ i <= j

\* checkout('v1') followed by current_version() that reports the tag 'a/v1'
C30_Witness ==
    /\ res.op = "current_version"
    /\ res.last.name = V1Ref
    /\ res.last.how = "tag"
    /\ res.last.out = "ok"
    /\ head = Detached("c1")
    /\ res.info.branch_or_tag = AV1Ref

\* a git_commit with a tag name has returned after a successful commit on a
\* branch
TaggedCommitReturned ==
    /\ res.op = "git_commit"
    /\ work.pc = "idle"
    /\ work.tag # None
    /\ ~work.detached
    /\ res.log # <<>>

Holds(log, effect) == \E n \in 1..Len(log) : log[n] = effect

\* C23: a git_commit with a tag name whose commit succeeds on a non-detached
\* HEAD creates the tag and pushes it after the branch push when a remote is
\* configured, and creates it locally with a warning for the skipped push when
\* none is; either way the tag exists locally when git_commit returns.
C23_AsStated ==
    TaggedCommitReturned =>
        /\ work.tag.v \in work.tags
        /\ work.remote => Holds(res.log, PushEffect)
        /\ ~work.remote => Holds(res.warnings, NoRemoteWarning)

\* what does hold: the tag is created after a branch push that succeeded, or
\* after repo.remote() gave no remote; a git_commit that returns without any
\* warning but that of the missing remote has created the tag, and pushed it
\* when there is a remote
C23_TagAfterPush ==
    TaggedCommitReturned =>
        /\ Holds(res.log, TagEffect) =>
              /\ work.tag.v \in work.tags
              /\ work.remote => IsPrefixOf(<<CommitEffect, PushEffect, TagEffect>>, res.log)
              /\ ~work.remote => res.log = <<CommitEffect, TagEffect>>
                                 /\ res.warnings = <<NoRemoteWarning>>
                                 /\ work.tag.v \notin work.origin_tags
        /\ res.warnings = <<>> =>
              /\ res.log = AllEffects
              /\ work.tag.v \in work.tags
              /\ work.tag.v \in work.origin_tags
        /\ (~Holds(res.warnings, PushFailedWarning) /\ ~Holds(res.warnings, CommitFailedWarning))
              => work.tag.v \in work.tags

\* the branch push has failed after the commit: git_commit returns with the
\* commit made and no tag
C23_Witness ==
    /\ TaggedCommitReturned
    /\ work.remote
    /\ res.log = <<CommitEffect>>
    /\ res.warnings = <<PushFailedWarning>>
    /\ work.commits = 1
    /\ work.tag.v \notin work.tags

\* no remote, and repo.remote() raises: the tag is not created locally
C23_WitnessNoRemote ==
    /\ TaggedCommitReturned
    /\ ~work.remote
    /\ res.log = <<CommitEffect>>
    /\ res.warnings = <<CommitFailedWarning>>
    /\ work.tag.v \notin work.tags

\* the repository cache with its default pointer, used by two instances
NextPointer ==
    \/ \E i \in Instances : NewManager(i)
    \/ \E i \in Instances, name \in RepoNames, force \in BOOLEAN :
          CloneStart(i, "u1", name, None, force)
    \/ \E i \in Instances, git_ok \in BOOLEAN : CloneFinish(i, git_ok)
    \/ \E i \in Instances, name \in RepoNames : Remove(i, name)
    \/ \E i \in Instances, name \in {None} \cup { Value(n) : n \in RepoNames } :
          ManagerSetDefaultRepo(i, name)
    \/ GetPromptsDir
    \/ \E name \in RepoNames : GetPathCall(name)

SpecPointer == InitRepo /\ [][NextPointer]_vars

\* the pointer is unset or names an entry of repos.json
PointerNamesEntry ==
    default_repo = None \/ Str(default_repo.v) \in DOMAIN repos_json

\* C24: after any sequence of clone, remove and set_default_repo the default
\* pointer is unset or names a repository of the persisted config, so resolving
\* the default repository never fails with 'not found'.
C24_AsStated ==
    /\ PointerNamesEntry
    /\ res.op = "get_prompts_dir" =>
          ~(res.out = "GitOperationError" /\ res.msg = NotFoundUseAddText(res.name))

\* what does hold: set_default_repo stores a name only when the instance's own
\* configuration has it, remove leaves the pointer as it is, and
\* get_prompts_dir returns a path exactly when the pointer names an entry of
\* repos.json whose directory exists
C24_SetChecksOwnConfig ==
    /\ [][ (res'.op = "set_default_repo" /\ res'.out = "ok" /\ res'.name # "") =>
              /\ res'.name \in DOMAIN managers[res'.i].config
              /\ default_repo' = Value(<<res'.name>>) ]_vars
    /\ [][ res'.op \in {"remove", "clone", "cloned", "RepoManager"} =>
              default_repo' = default_repo ]_vars
    /\ [](res.op = "get_prompts_dir" =>
            /\ res.out = "ok" <=>
                  (PointerNamesEntry /\ default_repo # None /\ res.name \in DOMAIN repo_dirs)
            /\ res.out = "Abort" <=> default_repo = None)

\* p was cloned, made the default and removed: the pointer still names p and
\* get_prompts_dir fails with 'not found'
C24_Witness ==
    /\ res.op = "get_prompts_dir"
    /\ res.out = "GitOperationError"
    /\ res.msg = NotFoundUseAddText("p")
    /\ default_repo = Value(<<"p">>)
    /\ "p" \notin DOMAIN repos_json

\* a clone has just failed with GitOperationError
CloneFailed == res'.op \in {"clone", "cloned"} /\ res'.out = "GitOperationError"

\* C25: a clone that fails with GitOperationError, forced or not, leaves the
\* repository cache as it was before the call: repos.json is unchanged and a
\* configured repository whose directory existed still has it, so get_path
\* succeeds afterwards for the names for which it succeeded before.
C25_AsStated ==
    [][ CloneFailed =>
          /\ repos_json' = repos_json
          /\ res'.op = "clone" => repo_dirs' = repo_dirs
          /\ res'.op = "cloned" =>
                /\ res'.prior # None =>
                      /\ res'.name \in DOMAIN repo_dirs'
                      /\ repo_dirs'[res'.name] = res'.prior
                /\ \A n \in RepoNames \ {res'.name} :
                      (n \in DOMAIN repo_dirs) = (n \in DOMAIN repo_dirs') ]_vars

\* what does hold: repos.json is unchanged, a clone refused at the existing
\* directory changes nothing, and a clone that fails in git leaves no
\* directory under its name and the other directories as they were
C25_NoDirectoryLeft ==
    [][ CloneFailed =>
          /\ repos_json' = repos_json
          /\ res'.op = "clone" => repo_dirs' = repo_dirs
          /\ res'.op = "cloned" =>
                /\ res'.name \notin DOMAIN repo_dirs'
                /\ \A n \in RepoNames \ {res'.name} :
                      /\ (n \in DOMAIN repo_dirs) = (n \in DOMAIN repo_dirs')
                      /\ n \in DOMAIN repo_dirs => repo_dirs'[n] = repo_dirs[n] ]_vars

\* a forced clone of the configured repository p has failed in git: p is still
\* in repos.json, the directory that was there is gone, and get_path('p') fails
C25_Witness ==
    /\ res.op = "cloned"
    /\ res.out = "GitOperationError"
    /\ res.force
    /\ res.name = "p"
    /\ res.prior # None
    /\ "p" \in DOMAIN repos_json
    /\ "p" \notin DOMAIN repo_dirs
    /\ GetPath(repos_json, "p") =
          [out |-> "GitOperationError", msg |-> PathNoLongerExistsText("p")]
\* worktrees are made for versions and cleaned up
NextCleanup ==
    \/ \E i \in Procs, v \in CleanupVersions :
          StartCall(i, Call("ensure_worktree", Value(v), <<>>, NoKwargs))
    \/ \E i \in Procs : EnsureCheck(i)
    \/ \E i \in Procs : Rmtree(i)
    \/ \E i \in Procs : WorktreeAdd(i)
    \/ \E i \in Procs : AddFinish(i)
    \/ \E i \in Procs : Complete(i)
    \/ \E active \in SUBSET CleanupVersions : Cleanup(active)

SpecCleanup == InitWorktree /\ [][NextCleanup]_vars

\* C26: cleanup_unused_worktrees(active_versions) never removes the worktree
\* directory of a version in active_versions, whatever the version name, names
\* with '_' and the '{prompt}/v{version}' tag names included; it removes only
\* worktrees of versions that are not in active_versions.
C26_AsStated ==
    res.op = "cleanup_unused_worktrees" =>
        \A v \in res.active : GetWorktreePath(v) \notin res.removed

HasChar(s, c) == \E n \in 1..Len(s) : s[n] = c

\* what does hold: a directory is removed exactly when its name with every '_'
\* turned into '/' is not an active version, so the worktree of an active
\* version without '_' and '\' in its name is kept
C26_KeptUnlessUnderscore ==
    res.op = "cleanup_unused_worktrees" =>
        /\ \A v \in res.active :
              (~HasChar(v, "_") /\ ~HasChar(v, "\\")) => GetWorktreePath(v) \notin res.removed
        /\ \A v \in CleanupVersions :
              (GetWorktreePath(v) \in res.before /\ ReplaceChar(v, "_", "/") \notin res.active)
                  => GetWorktreePath(v) \in res.removed
        /\ res.removed \subseteq res.before

\* the worktree of the tag a_v1 was made and a cleanup with a_v1 active has
\* removed it
C26_Witness ==
    /\ res.op = "cleanup_unused_worktrees"
    /\ res.active = {A_V1Ref}
    /\ GetWorktreePath(A_V1Ref) \in res.before
    /\ GetWorktreePath(A_V1Ref) \in res.removed
    /\ GetWorktreePath(A_V1Ref) \notin DOMAIN wt

\* the version exists as a tag, a local branch or a remote branch
VersionExists(v) == v \in DOMAIN Tags \cup DOMAIN branches \cup DOMAIN RemoteBranches

\* the commit the version points to
VersionCommit(v) ==
    IF v \in DOMAIN Tags THEN Tags[v]
    ELSE IF v \in DOMAIN branches THEN branches[v]
    ELSE RemoteBranches[v]

\* the call i of ensure_worktree ends in this step
EnsureEnds(i) ==
    /\ requests[i] # Idle
    /\ requests[i].call.op = "ensure_worktree"
    /\ requests'[i] = Idle

\* C27: for every version v that exists as a tag, local branch or remote
\* branch, ensure_worktree(v) succeeds and the working copy returned has the
\* commit of v checked out, also when the directory is reused from an earlier
\* call and when v is the branch checked out in the main working copy.
C27_AsStated ==
    [][ \A i \in Procs :
          (EnsureEnds(i) /\ VersionExists(requests[i].version)) =>
              /\ res'.out = "ok"
              /\ requests[i].path \in DOMAIN wt'
              /\ wt'[requests[i].path].k = "tree"
              /\ wt'[requests[i].path].commit = VersionCommit(requests[i].version) ]_vars

\* what does hold: git worktree add is asked for the commit of the version, and
\* a directory returned holds the commit of some version that is given this
\* directory
C27_CommitOfSomeVersion ==
    [][ \A i \in Procs :
          /\ (requests[i] # Idle /\ requests[i].pc = "add" /\ requests'[i] # Idle
              /\ requests'[i].pc = "adding") =>
                wt'[requests[i].path].commit = VersionCommit(requests[i].version)
          /\ (EnsureEnds(i) /\ res'.out = "ok" /\ requests[i].path \in DOMAIN wt') =>
                /\ \E u \in NamedVersions :
                      /\ GetWorktreePath(u) = requests[i].path
                      /\ wt'[requests[i].path].commit = VersionCommit(u) ]_vars

\* ensure_worktree('a_v1') has returned the directory that ensure_worktree of
\* the tag a/v1 had made: it holds the commit of a/v1, not that of a_v1
C27_Witness ==
    /\ res.op = "ensure_worktree"
    /\ res.call.version = Value(A_V1Ref)
    /\ res.out = "ok"
    /\ res.body \in DOMAIN wt
    /\ wt[res.body].k = "tree"
    /\ wt[res.body].commit = Tags[AV1Ref]
    /\ Tags[A_V1Ref] # Tags[AV1Ref]

\* ensure_worktree('main') is refused: main is checked out in the main working copy
C27_WitnessMain ==
    /\ res.op = "ensure_worktree"
    /\ res.call.version = Value(MainRef)
    /\ head.branch = MainRef
    /\ res.out = "GitOperationError"

\* the directory is removed in this step
Deleted(path) == path \in DOMAIN wt /\ path \notin DOMAIN wt'

\* the last call that returned gave this directory to its caller
ReturnedToCaller(path) ==
    res.op = "ensure_worktree" /\ res.out = "ok" /\ res.body = path

\* another call than i is in the middle of creating the directory
BeingCreated(i, path) ==
    \E j \in Procs \ {i} :
        requests[j] # Idle /\ requests[j].pc = "adding" /\ requests[j].path = path

\* C29: in every interleaving of concurrent ensure_worktree calls for one
\* version, a path returned is a directory that exists and is a valid working
\* copy when the call returns, and no call deletes a directory that another
\* call is creating or has returned to its caller.
C29_AsStated ==
    [][ \A i \in Procs :
          /\ (EnsureEnds(i) /\ res'.out = "ok") =>
                /\ requests[i].path \in DOMAIN wt'
                /\ wt'[requests[i].path].k = "tree"
                /\ requests[i].path \in DOMAIN reg'
          /\ (requests[i] # Idle /\ requests[i].pc = "rmtree" /\ requests'[i] # requests[i]
              /\ Deleted(requests[i].path)) =>
                /\ ~BeingCreated(i, requests[i].path)
                /\ ~ReturnedToCaller(requests[i].path) ]_vars

\* what does hold: the call whose own git worktree add ends well has a
\* complete, registered working copy at that moment, and a directory is
\* deleted only by a call whose Repo() probe of it had failed
C29_CreatorSeesTree ==
    [][ \A i \in Procs :
          /\ (requests[i] # Idle /\ requests[i].pc = "adding" /\ requests'[i] # Idle
              /\ requests'[i].pc = "ensured") =>
                /\ wt'[requests[i].path].k = "tree"
                /\ requests[i].path \in DOMAIN reg'
          /\ \A path \in DOMAIN wt :
                Deleted(path) =>
                    \E j \in Procs : /\ requests[j] # Idle
                                     /\ requests[j].pc = "rmtree"
                                     /\ requests[j].path = path
                                     /\ requests'[j] # requests[j] ]_vars

\* the first call has returned the directory to its caller and the second
\* call, whose probe had failed while git was filling it, has deleted it
C29_Witness ==
    /\ res.op = "ensure_worktree"
    /\ res.out = "ok"
    /\ res.i = "r1"
    /\ res.body \notin DOMAIN wt
    /\ requests["r2"] # Idle
    /\ requests["r2"].pc = "add"
    /\ requests["r2"].path = res.body

\* the versions a prompt file of the repository has or had
KnownVersions ==
    {InitialVersion} \cup { work.files[f] : f \in DOMAIN work.files }

\* C28: the tag convention is injective: two different (prompt path, version)
\* pairs never have the same tag name, so the tag a command creates for one
\* prompt is not the tag of a different prompt (as for 'a/b' and 'a-b').
C28_AsStated ==
    work.pc # "idle" =>
        \A q \in CliPaths, v \in KnownVersions :
            <<q, v>> # <<args.prompt_path, WrittenVersion>> =>
                CliTagName(q, v) # work.tag.v

\* what does hold: two paths share the tag of a version exactly when they are
\* the same once every '/' is written '-'
C28_InjectiveUpToDash ==
    work.pc # "idle" =>
        \A q \in CliPaths :
            (CliTagName(q, WrittenVersion) = work.tag.v)
                <=> (ReplaceChar(q, "/", "-") = ReplaceChar(args.prompt_path, "/", "-"))

\* prompt add a-b is about to create its tag, and the tag exists: prompt add
\* a/b has created it
C28_Witness ==
    /\ work.pc = "tag"
    /\ args.op = "prompt_add"
    /\ args.prompt_path = <<"a", "-", "b">>
    /\ work.tag.v \in work.tags
    /\ work.tag.v = CliTagName(<<"a", "/", "b">>, InitialVersion)
    /\ <<"a", "/", "b">> \o YamlExt \in DOMAIN work.files

====
